---- MODULE Spec2Model ----
(***************************************************************************)
(* Model of django_project_init.py: the config patcher                    *)
(* (update_base_settings / update_main_urls with their backup and restore *)
(* paths), the scaffolder's create_file / create_directory, and main's    *)
(* argument handling.                                                      *)
(*                                                                         *)
(* Text is modelled symbol by symbol.  A file content is the sequence of   *)
(* its lines (what content.split('\n') returns, so a content always has at *)
(* least one line and '\n'.join is the identity on it); a line is a        *)
(* sequence of symbols; a symbol is a one-character string or an atom      *)
(* standing for a fixed run of characters (INSTALLED_APPS, .apps., ...).   *)
(* Substring tests, strip, startswith and count are computed on symbols.   *)
(***************************************************************************)
EXTENDS Integers, Sequences, FiniteSets, TLC

\* ------------------------------------------------------------------ text

IsSpace(c) == c = " "

RECURSIVE LStrip(_)
LStrip(s) ==
  IF s # <<>> /\ IsSpace(Head(s)) THEN LStrip(Tail(s)) ELSE s

RECURSIVE RStrip(_)
RStrip(s) ==
  IF s # <<>> /\ IsSpace(s[Len(s)]) THEN RStrip(SubSeq(s, 1, Len(s) - 1)) ELSE s

Strip(s) == RStrip(LStrip(s))

StartsWith(s, p) == Len(p) <= Len(s) /\ SubSeq(s, 1, Len(p)) = p

\* p in s, for one line s
In(p, s) == \E i \in 1..(Len(s) - Len(p) + 1) : SubSeq(s, i, i + Len(p) - 1) = p

\* p in content, for a pattern p without a newline
InContent(p, content) == \E k \in 1..Len(content) : In(p, content[k])

RECURSIVE CountInLine(_, _)
CountInLine(c, s) ==
  IF s = <<>> THEN 0
  ELSE (IF Head(s) = c THEN 1 ELSE 0) + CountInLine(c, Tail(s))

RECURSIVE Count(_, _)
Count(c, content) ==
  IF content = <<>> THEN 0
  ELSE CountInLine(c, Head(content)) + Count(c, Tail(content))

\* content.strip() == ''
IsBlank(content) == \A k \in 1..Len(content) : Strip(content[k]) = <<>>

\* lines.insert(i, x) for the 1-based position i (the element that was at i
\* follows x)
InsertAt(lines, i, x) ==
  SubSeq(lines, 1, i - 1) \o <<x>> \o SubSeq(lines, i, Len(lines))

\* leading whitespace of a line: line[:-len(line.lstrip())]
LeadingSpace(line) == SubSeq(line, 1, Len(line) - Len(LStrip(line)))

Indent4 == <<" ", " ", " ", " ">>
Quoted(x) == <<"'">> \o x \o <<"'">>

\* ------------------------------------------------------- str.title()

LowerLetters == <<"a", "b", "d", "g", "i", "l", "m", "n", "o">>
UpperLetters == <<"A", "B", "D", "G", "I", "L", "M", "N", "O">>

IsLower(c) == \E i \in 1..Len(LowerLetters) : LowerLetters[i] = c
IsUpper(c) == \E i \in 1..Len(UpperLetters) : UpperLetters[i] = c
IsCased(c) == IsLower(c) \/ IsUpper(c)

ToUpper(c) ==
  IF IsLower(c)
  THEN UpperLetters[CHOOSE i \in 1..Len(LowerLetters) : LowerLetters[i] = c]
  ELSE c

ToLower(c) ==
  IF IsUpper(c)
  THEN LowerLetters[CHOOSE i \in 1..Len(UpperLetters) : UpperLetters[i] = c]
  ELSE c

\* str.title(): a cased character is upper-cased when it follows an uncased
\* one (or starts the string) and lower-cased when it follows a cased one
RECURSIVE TitleFrom(_, _)
TitleFrom(s, prevCased) ==
  IF s = <<>> THEN <<>>
  ELSE <<IF prevCased THEN ToLower(Head(s)) ELSE ToUpper(Head(s))>>
         \o TitleFrom(Tail(s), IsCased(Head(s)))

Title(s) == TitleFrom(s, FALSE)

\* --------------------------------------------- compile(content, ..., 'exec')
\* The syntax check of the Python builtin, for the statements that occur in
\* the modelled files: string literals closed on their line, comments,
\* brackets properly nested, no operand directly after an operand (except
\* adjacent string literals), no comma without an operand before it, no
\* closing bracket or line end right after an operator, no assignment
\* inside a list display, and no indented statement outside a block.

Quotes == {"'", "\""}
Brackets == {"[", "]", "(", ")"}
Assignments == {"=", "+="}
Operators == {"+", "*"}
Keywords == {"from django.", "from rest_framework", "import", "if", "try"}

\* tokens of one physical line; q is the quote that is open ("" if none),
\* adj says that the previous symbol was part of a name
RECURSIVE Tokens(_, _, _)
Tokens(s, q, adj) ==
  IF s = <<>> THEN (IF q # "" THEN <<"ERR">> ELSE <<>>)
  ELSE LET c == Head(s)
           r == Tail(s)
       IN IF q # "" THEN (IF c = q THEN <<"STR">> \o Tokens(r, "", FALSE)
                                   ELSE Tokens(r, q, FALSE))
          ELSE IF c = "#" THEN <<>>
          ELSE IF IsSpace(c) THEN Tokens(r, "", FALSE)
          ELSE IF c \in Quotes THEN Tokens(r, c, FALSE)
          ELSE IF c \in Brackets \/ c = "," \/ c = ":" THEN <<c>> \o Tokens(r, "", FALSE)
          ELSE IF c \in Assignments THEN <<c>> \o Tokens(r, "", FALSE)
          ELSE IF c \in Operators \/ c \in Keywords THEN <<"OP">> \o Tokens(r, "", FALSE)
          ELSE (IF adj THEN <<>> ELSE <<"NAME">>) \o Tokens(r, "", TRUE)

Opener(c) == IF c = "]" THEN "[" ELSE "("

\* one token; st = [stack, prev, block, ok]
ParseToken(st, t) ==
  IF ~st.ok THEN st
  ELSE IF t = "ERR" THEN [st EXCEPT !.ok = FALSE]
  ELSE IF t = "STR" THEN
    [st EXCEPT !.ok = st.prev # "OPERAND", !.prev = "STRING"]
  ELSE IF t = "NAME" THEN
    [st EXCEPT !.ok = st.prev \notin {"OPERAND", "STRING"}, !.prev = "OPERAND"]
  ELSE IF t = "OP" THEN [st EXCEPT !.prev = "OPER"]
  ELSE IF t \in Assignments THEN
    \* "=" is a keyword argument inside a call, an assignment outside brackets
    [st EXCEPT !.ok = \/ st.stack = <<>>
                      \/ t = "=" /\ st.stack[Len(st.stack)] = "(",
               !.prev = "OPER"]
  ELSE IF t = "," THEN
    [st EXCEPT !.ok = st.prev \in {"OPERAND", "STRING"}, !.prev = "SEP"]
  ELSE IF t \in {"[", "("} THEN
    [st EXCEPT !.stack = Append(st.stack, t), !.prev = "OPEN"]
  ELSE IF t \in {"]", ")"} THEN
    IF st.stack = <<>> \/ st.stack[Len(st.stack)] # Opener(t) \/ st.prev = "OPER"
    THEN [st EXCEPT !.ok = FALSE]
    ELSE [st EXCEPT !.stack = SubSeq(st.stack, 1, Len(st.stack) - 1),
                    !.prev = "OPERAND"]
  ELSE \* ":" opens a block when it stands outside brackets
    IF st.stack = <<>> THEN [st EXCEPT !.block = TRUE, !.prev = "START"]
    ELSE [st EXCEPT !.prev = "OPER"]

RECURSIVE ParseTokens(_, _)
ParseTokens(st, toks) ==
  IF toks = <<>> THEN st ELSE ParseTokens(ParseToken(st, Head(toks)), Tail(toks))

ParseLine(st, line) ==
  LET toks == Tokens(line, "", FALSE)
  IN IF ~st.ok \/ toks = <<>> THEN st
     ELSE LET atStart == st.stack = <<>>
              st0 == IF atStart
                     THEN [st EXCEPT !.prev = "START",
                                     !.ok = LeadingSpace(line) = <<>> \/ st.block]
                     ELSE st
              st1 == ParseTokens(st0, toks)
          IN IF st1.ok /\ st1.stack = <<>> /\ st1.prev = "OPER"
             THEN [st1 EXCEPT !.ok = FALSE]
             ELSE st1

RECURSIVE ParseLines(_, _)
ParseLines(st, lines) ==
  IF lines = <<>> THEN st ELSE ParseLines(ParseLine(st, Head(lines)), Tail(lines))

\* TRUE iff compile(content, '<string>', 'exec') raises no SyntaxError
Compiles(content) ==
  LET st == ParseLines([stack |-> <<>>, prev |-> "START", block |-> FALSE,
                        ok |-> TRUE], content)
  IN st.ok /\ st.stack = <<>>

\* ---------------------------------------------------- base settings patch

INSTALLED_APPS == <<"INSTALLED_APPS">>

validate_base_settings_content(content) ==
  IF IsBlank(content) THEN FALSE
  ELSE IF ~InContent(INSTALLED_APPS, content) THEN FALSE
  ELSE TRUE

validate_base_settings_syntax(content) == Compiles(content)

validate_base_settings_result(new_content) ==
  IF ~InContent(INSTALLED_APPS, new_content) THEN FALSE
  ELSE IF ~Compiles(new_content) THEN FALSE
  ELSE IF Count("[", new_content) # Count("]", new_content) THEN FALSE
  ELSE TRUE

\* the scan for the opening and the closing line (1-based; 0 = not found,
\* the code's -1)
RECURSIVE LocateBase(_, _, _)
LocateBase(lines, i, start) ==
  IF i > Len(lines) THEN [start |-> start, end |-> 0]
  ELSE LET line == lines[i]
           s == IF StartsWith(Strip(line), INSTALLED_APPS) /\ In(<<"[">>, line)
                THEN i ELSE start
       IN IF s # 0 /\ In(<<"]">>, line) THEN [start |-> s, end |-> i]
          ELSE LocateBase(lines, i + 1, s)

\* an indent taken from the first line of the block, whatever it holds
DetectIndent_first_line(existing_lines) ==
  IF existing_lines = <<>> THEN <<>> ELSE LeadingSpace(Head(existing_lines))

\* the first line that is neither blank nor a comment decides the indent
RECURSIVE DetectIndent(_)
DetectIndent(existing_lines) ==
  IF existing_lines = <<>> THEN <<>>
  ELSE LET line == Head(existing_lines)
       IN IF Strip(line) # <<>> /\ ~StartsWith(Strip(line), <<"#">>)
          THEN LeadingSpace(line)
          ELSE DetectIndent(Tail(existing_lines))

AppConfigName(app_name) == app_name \o <<".apps.">> \o Title(app_name) \o <<"Config">>

app_patterns(app_name) == {AppConfigName(app_name), app_name}

\* an existence check that knows the double-quoted form only
BaseAlreadyExists_double_quoted(existing_lines, app_name) ==
  \E k \in 1..Len(existing_lines) :
    LET line == Strip(existing_lines[k])
    IN /\ ~StartsWith(line, <<"#">>)
       /\ \E pattern \in app_patterns(app_name) :
            In(<<"\"">> \o pattern \o <<"\"">>, line)

BaseAlreadyExists(existing_lines, app_name) ==
  \E k \in 1..Len(existing_lines) :
    LET line == Strip(existing_lines[k])
    IN /\ ~StartsWith(line, <<"#">>)
       /\ \E pattern \in app_patterns(app_name) :
            \/ In(<<"'">> \o pattern \o <<"'">>, line)
            \/ In(<<"\"">> \o pattern \o <<"\"">>, line)

BaseAppConfigLine(indent, app_name) ==
  indent \o <<"'">> \o AppConfigName(app_name) \o <<"'", ",">>

\* an append_app_to_base_settings that reports an update when the
\* pre-check of the content fails
append_app_to_base_settings_unchecked(content, app_name) ==
  LET unchanged == [content |-> content, has_update |-> FALSE]
  IN IF ~validate_base_settings_content(content)
     THEN [content |-> content, has_update |-> TRUE]
     ELSE IF ~validate_base_settings_syntax(content) THEN unchanged
     ELSE
       LET lines == content
           loc == LocateBase(lines, 1, 0)
       IN IF loc.start = 0 \/ loc.end = 0 THEN unchanged
          ELSE
            LET existing_lines == SubSeq(lines, loc.start + 1, loc.end - 1)
                indent == DetectIndent(existing_lines)
            IN IF indent = <<>> THEN unchanged
               ELSE IF BaseAlreadyExists(existing_lines, app_name) THEN unchanged
               ELSE
                 LET new_content ==
                       InsertAt(lines, loc.end, BaseAppConfigLine(indent, app_name))
                 IN IF ~validate_base_settings_result(new_content) THEN unchanged
                    ELSE [content |-> new_content, has_update |-> TRUE]

\* returns (new content, has_update) of the code's triple
append_app_to_base_settings(content, app_name) ==
  LET unchanged == [content |-> content, has_update |-> FALSE]
  IN IF ~validate_base_settings_content(content) THEN unchanged
     ELSE IF ~validate_base_settings_syntax(content) THEN unchanged
     ELSE
       LET lines == content
           loc == LocateBase(lines, 1, 0)
       IN IF loc.start = 0 \/ loc.end = 0 THEN unchanged
          ELSE
            LET existing_lines == SubSeq(lines, loc.start + 1, loc.end - 1)
                indent == DetectIndent(existing_lines)
            IN IF indent = <<>> THEN unchanged
               ELSE IF BaseAlreadyExists(existing_lines, app_name) THEN unchanged
               ELSE
                 LET new_content ==
                       InsertAt(lines, loc.end, BaseAppConfigLine(indent, app_name))
                 IN IF ~validate_base_settings_result(new_content) THEN unchanged
                    ELSE [content |-> new_content, has_update |-> TRUE]

\* ------------------------------------------------------- main urls patch

urlpatterns == <<"urlpatterns">>
FromDjangoUrlsImport == <<"from django.", "urls", " ", "import">>
ImportPathInclude == FromDjangoUrlsImport \o <<" ", "path", ",", " ", "include">>

\* line.replace(old, new)
RECURSIVE Replace(_, _, _)
Replace(line, old, new) ==
  IF line = <<>> THEN <<>>
  ELSE IF StartsWith(line, old)
       THEN new \o Replace(SubSeq(line, Len(old) + 1, Len(line)), old, new)
       ELSE <<Head(line)>> \o Replace(Tail(line), old, new)

\* lines.index(line)
FirstIndex(lines, line) ==
  CHOOSE i \in 1..Len(lines) : lines[i] = line /\ \A j \in 1..(i - 1) : lines[j] # line

validate_main_urls_content(content) ==
  IF IsBlank(content) THEN FALSE
  ELSE IF ~InContent(urlpatterns, content) THEN FALSE
  ELSE TRUE

validate_main_urls_syntax(content) == Compiles(content)

validate_main_urls_result(new_content) ==
  IF ~InContent(urlpatterns, new_content) THEN FALSE
  ELSE IF ~Compiles(new_content) THEN FALSE
  ELSE IF ~InContent(FromDjangoUrlsImport, new_content) THEN FALSE
  ELSE IF ~\E k \in 1..Len(new_content) :
             /\ StartsWith(new_content[k], FromDjangoUrlsImport)
             /\ In(<<"path">>, new_content[k])
             /\ In(<<"include">>, new_content[k])
       THEN FALSE
  ELSE IF Count("[", new_content) # Count("]", new_content) THEN FALSE
  ELSE TRUE

\* step 2.0, first loop: look for an import of include, or add include to
\* the import of path; st = [lines, has]
RECURSIVE EnsureIncludeFrom(_, _, _)
EnsureIncludeFrom(lines, i, has) ==
  IF i > Len(lines) THEN [lines |-> lines, has |-> has]
  ELSE LET line == lines[i]
       IN IF In(FromDjangoUrlsImport, line)
          THEN IF In(<<"include">>, line)
               THEN EnsureIncludeFrom(lines, i + 1, TRUE)
               ELSE IF In(<<"path">>, line)
               THEN [lines |-> [lines EXCEPT ![FirstIndex(lines, line)] =
                                  Replace(line, <<"import", " ", "path">>,
                                          <<"import", " ", "path", ",", " ", "include">>)],
                     has |-> TRUE]
               ELSE EnsureIncludeFrom(lines, i + 1, has)
          ELSE EnsureIncludeFrom(lines, i + 1, has)

\* step 2.0, second loop: put a new import line before the first django or
\* rest_framework import
RECURSIVE AddImportFrom(_, _)
AddImportFrom(lines, i) ==
  IF i > Len(lines) THEN lines
  ELSE IF \/ StartsWith(lines[i], <<"from django.">>)
          \/ StartsWith(lines[i], <<"from rest_framework">>)
       THEN InsertAt(lines, i, ImportPathInclude)
       ELSE AddImportFrom(lines, i + 1)

EnsureImports(lines) ==
  LET r == EnsureIncludeFrom(lines, 1, FALSE)
  IN IF r.has THEN r.lines ELSE AddImportFrom(r.lines, 1)

RECURSIVE LocateUrls(_, _, _)
LocateUrls(lines, i, start) ==
  IF i > Len(lines) THEN [start |-> start, end |-> 0]
  ELSE LET line == lines[i]
           s == IF StartsWith(Strip(line), urlpatterns) /\ In(<<"[">>, line)
                THEN i ELSE start
       IN IF s # 0 /\ In(<<"]">>, line) /\ ~In(<<"debug_toolbar">>, line)
          THEN [start |-> s, end |-> i]
          ELSE LocateUrls(lines, i + 1, s)

pattern_checks(app_name) ==
  { <<"path", "(", "'">> \o app_name \o <<"/", "'">>,
    <<"path", "(", "\"">> \o app_name \o <<"/", "\"">>,
    <<"include", "(", "'">> \o app_name \o <<".urls", "'", ")">>,
    <<"include", "(", "\"">> \o app_name \o <<".urls", "\"", ")">> }

UrlAlreadyExists(existing_lines, app_name) ==
  \E k \in 1..Len(existing_lines) :
    LET line == Strip(existing_lines[k])
    IN /\ ~StartsWith(line, <<"#">>)
       /\ \E pattern \in pattern_checks(app_name) : In(pattern, line)

MainApp == <<"m", "a", "i", "n">>

UrlPatternLine(indent, app_name) ==
  IF app_name = MainApp
  THEN indent \o <<"path", "(", "'", "'", ",", " ", "include", "(", "'">>
              \o MainApp \o <<".urls", "'", ")", ")", ",", " ", " ", "#", " ", "root URL">>
  ELSE indent \o <<"path", "(", "'">> \o app_name \o <<"/", "'", ",", " ",
                   "include", "(", "'">> \o app_name \o <<".urls", "'", ")", ")", ",">>

append_url_to_main_urls(content, app_name) ==
  LET unchanged == [content |-> content, has_update |-> FALSE]
  IN IF ~validate_main_urls_content(content) THEN unchanged
     ELSE IF ~validate_main_urls_syntax(content) THEN unchanged
     ELSE
       LET lines == EnsureImports(content)
           loc == LocateUrls(lines, 1, 0)
       IN IF loc.start = 0 \/ loc.end = 0 THEN unchanged
          ELSE
            LET existing_lines == SubSeq(lines, loc.start + 1, loc.end - 1)
                indent == DetectIndent(existing_lines)
            IN IF indent = <<>> THEN unchanged
               ELSE IF UrlAlreadyExists(existing_lines, app_name) THEN unchanged
               ELSE
                 LET new_content ==
                       InsertAt(lines, loc.end, UrlPatternLine(indent, app_name))
                 IN IF ~validate_main_urls_result(new_content) THEN unchanged
                    ELSE [content |-> new_content, has_update |-> TRUE]

\* ----------------------------------------------------------- file system
\* A path is a sequence of names and a name is a sequence of symbols, so
\* that startswith / endswith / sorted on file names are computed.  A file
\* system is a set of directories and a function from the paths of the
\* existing files to their contents.

Exists(fs, path) == path \in fs.dirs \/ path \in DOMAIN fs.files

\* os.makedirs(path, exist_ok=True), Path.mkdir(parents=True, exist_ok=True)
MakeDirs(fs, path) ==
  [fs EXCEPT !.dirs = @ \cup {SubSeq(path, 1, k) : k \in 1..Len(path)}]

\* open(path, 'w').write(content) and shutil.copy2(src, path), when they succeed
WriteFile(fs, path, content) == [fs EXCEPT !.files = (path :> content) @@ @]

EmptyContent == << <<>> >>

\* a write that raises: either the open fails and nothing changes, or the
\* target was opened (and truncated) before the error
FailedWrite(fs, path, partial) ==
  IF partial THEN WriteFile(fs, path, EmptyContent) ELSE fs

\* os.listdir(dir), the files only
ListDir(fs, dir) ==
  { path[Len(path)] : path \in
      { q \in DOMAIN fs.files : Len(q) = Len(dir) + 1 /\ SubSeq(q, 1, Len(dir)) = dir } }

EndsWith(s, p) == Len(p) <= Len(s) /\ SubSeq(s, Len(s) - Len(p) + 1, Len(s)) = p

\* order of the symbols that occur in file names (by their first character)
NameSymbols ==
  <<".bak", "0", "1", "2", "3", "4", "5", "6", "7", "8", "9",
    "base.py.", "notes.txt", "orig", "urls.py.">>

SymRank(c) == CHOOSE i \in 1..Len(NameSymbols) : NameSymbols[i] = c

\* a < b in the order sorted() uses on strings
RECURSIVE LexLess(_, _)
LexLess(a, b) ==
  IF b = <<>> THEN FALSE
  ELSE IF a = <<>> THEN TRUE
  ELSE IF Head(a) = Head(b) THEN LexLess(Tail(a), Tail(b))
  ELSE SymRank(Head(a)) < SymRank(Head(b))

\* datetime.now().strftime('%Y%m%d_%H%M%S'): fixed width, increasing with
\* the time; two digits stand for the fourteen
Digits == <<"0", "1", "2", "3", "4", "5", "6", "7", "8", "9">>
Timestamp(now) == <<Digits[(now \div 10) + 1], Digits[(now % 10) + 1]>>

ConfigDir == << <<"config">> >>
SettingsRel == ConfigDir \o << <<"settings">>, <<"base.py">> >>
UrlsRel == ConfigDir \o << <<"urls.py">> >>
BackupRoot == ConfigDir \o << <<"app_append_backups">> >>
BaseBackupRel == BackupRoot \o << <<"base_backups">> >>
UrlsBackupRel == BackupRoot \o << <<"urls_backups">> >>

BasePrefix == <<"base.py.">>
UrlsPrefix == <<"urls.py.">>
BakSuffix == <<".bak">>

\* a backup name whose stamp decreases with the time
BackupName_decreasing(prefix, now) == prefix \o Timestamp(99 - now) \o BakSuffix

BackupName(prefix, now) == prefix \o Timestamp(now) \o BakSuffix

get_backup_paths(fs, cwd) ==
  MakeDirs(MakeDirs(fs, cwd \o BaseBackupRel), cwd \o UrlsBackupRel)

\* a filter that looks at the suffix only
MatchingBackups_by_suffix(fs, dir, prefix) ==
  { f \in ListDir(fs, dir) : EndsWith(f, BakSuffix) }

\* the set of the backup names in dir that match the naming pattern
MatchingBackups(fs, dir, prefix) ==
  { f \in ListDir(fs, dir) : StartsWith(f, prefix) /\ EndsWith(f, BakSuffix) }

\* a get_latest_backup that sorts in ascending order
get_latest_backup_ascending(fs, dir, prefix) ==
  LET backups == MatchingBackups(fs, dir, prefix)
  IN { dir \o <<f>> : f \in { g \in backups : \A h \in backups : ~LexLess(h, g) } }

\* get_latest_backup(): sorted(..., reverse=True)[0]; the result is the set
\* holding the path of the latest backup, or the empty set for None
get_latest_backup(fs, dir, prefix) ==
  LET backups == MatchingBackups(fs, dir, prefix)
  IN { dir \o <<f>> : f \in { g \in backups : \A h \in backups : ~LexLess(g, h) } }

\* ---------------------------------------------------------------- patcher
\* What a call does to the file system is returned as a record
\*   fs   the file system when the call ends
\*   ret  "True", "False", or "raise" when an exception leaves the call
\*   log  the writes of the call in order, each an Event
\* fail is the set of the I/O steps that raise in this call and partial
\* tells whether a failing write truncates its target.

\* the content of path as a sequence of at most one element
Snapshot(fs, path) == IF path \in DOMAIN fs.files THEN <<fs.files[path]>> ELSE <<>>

\* one write: the file written, what it was before (before is a Snapshot)
\* and the content it was given
Event(target, step, path, before, after) ==
  [target |-> target, step |-> step, path |-> path, existed |-> before # <<>>,
   changed |-> before # <<after>>, content |-> after]

\* the progress of a call: the file system, the writes done so far in
\* order, the steps that raised, and whether the last step raised
Begin(fs) == [fs |-> fs, log |-> <<>>, raised |-> {}, failed |-> FALSE]

\* F applied to the value of e: a statement's result, computed once, as the
\* statements after it see it
Bind(e, F(_)) == CHOOSE r \in {F(x) : x \in {e}} : TRUE

\* one write of content to path, as the given step of the call
DoWrite(acc, target, step, path, content, fail, partial) ==
  IF step \in fail
  THEN [fs |-> FailedWrite(acc.fs, path, partial),
        log |-> IF partial
                THEN Append(acc.log, Event(target, step, path, Snapshot(acc.fs, path), EmptyContent))
                ELSE acc.log,
        raised |-> acc.raised \cup {step},
        failed |-> TRUE]
  ELSE [fs |-> WriteFile(acc.fs, path, content),
        log |-> Append(acc.log, Event(target, step, path, Snapshot(acc.fs, path), content)),
        raised |-> acc.raised,
        failed |-> FALSE]

Result(acc, ret) == [fs |-> acc.fs, ret |-> ret, log |-> acc.log, raised |-> acc.raised]

\* a restore that moves the latest backup over the live file, so that the
\* backup is gone afterwards
RestoreLatest_moving(fs, live_path, dir, prefix, fail, partial) ==
  LET latest_backup == get_latest_backup(fs, dir, prefix)
  IN IF latest_backup # {}
     THEN LET src == CHOOSE b \in latest_backup : TRUE
              w == DoWrite(Begin(fs), "live", "restore", live_path, fs.files[src],
                           fail, partial)
              moved == [w EXCEPT !.fs.files = [path \in DOMAIN @ \ {src} |-> @[path]]]
          IN Result(moved, IF w.failed THEN "False" ELSE "True")
     ELSE Result(Begin(fs), "False")

\* the restore branch of update_base_settings and update_main_urls
RestoreLatest(fs, live_path, dir, prefix, fail, partial) ==
  LET latest_backup == get_latest_backup(fs, dir, prefix)
  IN IF latest_backup # {}
     THEN LET src == CHOOSE b \in latest_backup : TRUE
              w == DoWrite(Begin(fs), "live", "restore", live_path, fs.files[src],
                           fail, partial)
          IN Result(w, IF w.failed THEN "False" ELSE "True")
     ELSE Result(Begin(fs), "False")

\* step 6, the handler of the outer try.  guarded tells whether the copy is
\* itself inside a try (update_main_urls) or not (update_base_settings).
RestoreOnError(acc, live_path, dir, prefix, guarded, fail, partial) ==
  LET latest_backup == get_latest_backup(acc.fs, dir, prefix)
  IN IF latest_backup # {}
     THEN LET src == CHOOSE b \in latest_backup : TRUE
              w == DoWrite(acc, "live", "fallback", live_path, acc.fs.files[src],
                           fail, partial)
          IN Result(w, IF w.failed /\ ~guarded THEN "raise" ELSE "False")
     ELSE Result(acc, "False")

\* a patch branch whose write handler re-raises without copying the backup
\* of the call back
PatchFile_without_rollback(fs1, live_path, dir, prefix, backup_path, guarded, splice, fail, partial) ==
  LET OnError(acc) ==
        RestoreOnError(acc, live_path, dir, prefix, guarded, fail, partial)
      b == IF Exists(fs1, live_path)
           THEN DoWrite(Begin(fs1), "backup", "backup", backup_path,
                        fs1.files[live_path], fail, partial)
           ELSE Begin(fs1)
  IN IF b.failed THEN OnError(b)
     ELSE IF ~Exists(b.fs, live_path) \/ "read" \in fail
     THEN OnError([b EXCEPT !.raised = @ \cup {"read"}])
     ELSE IF ~splice.has_update THEN Result(b, "False")
     ELSE
       LET w == DoWrite(b, "live", "write", live_path, splice.content, fail, partial)
       IN IF ~w.failed THEN Result(w, "True") ELSE OnError(w)

\* a patch branch that writes its backup only when the splice reports an
\* update, right before the new content is written
PatchFile_backup_on_commit(fs1, live_path, dir, prefix, backup_path, guarded, splice, fail, partial) ==
  LET OnError(acc) ==
        RestoreOnError(acc, live_path, dir, prefix, guarded, fail, partial)
      a == Begin(fs1)
  IN IF ~Exists(fs1, live_path) \/ "read" \in fail
     THEN OnError([a EXCEPT !.raised = @ \cup {"read"}])
     ELSE IF ~splice.has_update THEN Result(a, "False")
     ELSE
       LET b == DoWrite(a, "backup", "backup", backup_path, fs1.files[live_path],
                        fail, partial)
       IN IF b.failed THEN OnError(b)
          ELSE LET w == DoWrite(b, "live", "write", live_path, splice.content,
                                fail, partial)
               IN IF ~w.failed THEN Result(w, "True")
                  ELSE OnError(DoWrite(w, "live", "rollback", live_path,
                                       w.fs.files[backup_path], fail, partial))

\* the patch branch of update_base_settings and update_main_urls, steps 1
\* to 6; splice is the result of append_app_to_base_settings or
\* append_url_to_main_urls on the content read in step 2
PatchFile(fs1, live_path, dir, prefix, backup_path, guarded, splice, fail, partial) ==
  LET OnError(acc) ==
        RestoreOnError(acc, live_path, dir, prefix, guarded, fail, partial)
      \* 1. the backup, if the live file exists
      b == IF Exists(fs1, live_path)
           THEN DoWrite(Begin(fs1), "backup", "backup", backup_path,
                        fs1.files[live_path], fail, partial)
           ELSE Begin(fs1)
  IN IF b.failed THEN OnError(b)
     \* 2. read the live file
     ELSE IF ~Exists(b.fs, live_path) \/ "read" \in fail
     THEN OnError([b EXCEPT !.raised = @ \cup {"read"}])
     \* 3. the splice
     ELSE IF ~splice.has_update THEN Result(b, "False")
     ELSE
       \* 4. write the new content
       LET w == DoWrite(b, "live", "write", live_path, splice.content, fail, partial)
       IN IF ~w.failed THEN Result(w, "True")
          ELSE
            \* 5. copy this call's backup back, then re-raise
            OnError(DoWrite(w, "live", "rollback", live_path,
                            w.fs.files[backup_path], fail, partial))

update_base_settings(fs, cwd, app_name, restore, now, fail, partial) ==
  LET settings_path == cwd \o SettingsRel
      base_backup_dir == cwd \o BaseBackupRel
      backup_path == base_backup_dir \o <<BackupName(BasePrefix, now)>>
      fs1 == get_backup_paths(fs, cwd)
  IN IF restore
     THEN RestoreLatest(fs1, settings_path, base_backup_dir, BasePrefix, fail, partial)
     ELSE PatchFile(fs1, settings_path, base_backup_dir, BasePrefix, backup_path, FALSE,
                    IF settings_path \in DOMAIN fs1.files
                    THEN append_app_to_base_settings(fs1.files[settings_path], app_name)
                    ELSE [content |-> EmptyContent, has_update |-> FALSE],
                    fail, partial)

update_main_urls(fs, cwd, app_name, restore, now, fail, partial) ==
  LET urls_path == cwd \o UrlsRel
      urls_backup_dir == cwd \o UrlsBackupRel
      backup_path == urls_backup_dir \o <<BackupName(UrlsPrefix, now)>>
      fs1 == get_backup_paths(fs, cwd)
  IN IF restore
     THEN RestoreLatest(fs1, urls_path, urls_backup_dir, UrlsPrefix, fail, partial)
     ELSE PatchFile(fs1, urls_path, urls_backup_dir, UrlsPrefix, backup_path, TRUE,
                    IF urls_path \in DOMAIN fs1.files
                    THEN append_url_to_main_urls(fs1.files[urls_path], app_name)
                    ELSE [content |-> EmptyContent, has_update |-> FALSE],
                    fail, partial)

\* ------------------------------------------------------------ scaffolder
\* The progress of a scaffolding call is a record as in the patcher: the
\* file system, the writes done so far, and whether the last create_* call
\* returned False.

InitPy == <<"__init__.py">>
AppsDir == << <<"apps">> >>

\* '/'.join(path)
RECURSIVE JoinPath(_)
JoinPath(path) ==
  IF Len(path) = 1 THEN path[1] ELSE path[1] \o <<"/">> \o JoinPath(Tail(path))

\* the text of a generated file that no operation of the tool reads: its
\* header line stands for the whole
FileText(tag) == << <<"File: ">> \o tag >>

\* os.makedirs(path, exist_ok=True) inside try/except: False when a
\* component of path is a file (raised collects the paths of the calls
\* that returned False)
create_directory(acc, path) ==
  IF \E k \in 1..Len(path) : SubSeq(path, 1, k) \in DOMAIN acc.fs.files
  THEN [acc EXCEPT !.failed = TRUE, !.raised = @ \cup {path}]
  ELSE [acc EXCEPT !.fs = MakeDirs(@, path), !.failed = FALSE]

\* a create_file that writes whatever is at path
create_file_overwriting(acc, path, content) ==
  IF SubSeq(path, 1, Len(path) - 1) \in acc.fs.dirs /\ path \notin acc.fs.dirs
  THEN DoWrite(acc, "file", "create_file", path, content, {}, FALSE)
  ELSE [acc EXCEPT !.failed = TRUE, !.raised = @ \cup {path}]

\* writes content only if nothing exists at path; False when open() raises
\* (the parent directory is missing)
create_file(acc, path, content) ==
  IF ~Exists(acc.fs, path)
  THEN IF SubSeq(path, 1, Len(path) - 1) \in acc.fs.dirs
       THEN DoWrite(acc, "file", "create_file", path, content, {}, FALSE)
       ELSE [acc EXCEPT !.failed = TRUE, !.raised = @ \cup {path}]
  ELSE [acc EXCEPT !.failed = FALSE]

\* re.sub('(.)([A-Z][a-z]+)', r'\1_\2', s)
RECURSIVE LowerRun(_)
LowerRun(s) == IF s # <<>> /\ IsLower(Head(s)) THEN 1 + LowerRun(Tail(s)) ELSE 0

RECURSIVE SplitCapitalized(_)
SplitCapitalized(s) ==
  IF Len(s) < 3 THEN s
  ELSE IF IsUpper(s[2]) /\ IsLower(s[3])
       THEN LET n == 2 + LowerRun(SubSeq(s, 3, Len(s)))
            IN <<s[1], "_">> \o SubSeq(s, 2, n) \o SplitCapitalized(SubSeq(s, n + 1, Len(s)))
       ELSE <<s[1]>> \o SplitCapitalized(Tail(s))

\* re.sub('([a-z0-9])([A-Z])', r'\1_\2', s)
RECURSIVE SplitCamel(_)
SplitCamel(s) ==
  IF Len(s) < 2 THEN s
  ELSE IF (IsLower(s[1]) \/ \E i \in 1..Len(Digits) : Digits[i] = s[1]) /\ IsUpper(s[2])
       THEN <<s[1], "_", s[2]>> \o SplitCamel(SubSeq(s, 3, Len(s)))
       ELSE <<s[1]>> \o SplitCamel(Tail(s))

Lower(s) == [i \in 1..Len(s) |-> ToLower(s[i])]

normalize_app_name(app_name) == Lower(SplitCamel(SplitCapitalized(app_name)))

\* ''.join(word.title() for word in app_name.split('_'))
RECURSIVE get_app_class_name(_)
get_app_class_name(app_name) ==
  IF \E i \in 1..Len(app_name) : app_name[i] = "_"
  THEN LET i == CHOOSE j \in 1..Len(app_name) :
                  app_name[j] = "_" /\ \A k \in 1..(j - 1) : app_name[k] # "_"
       IN Title(SubSeq(app_name, 1, i - 1))
            \o get_app_class_name(SubSeq(app_name, i + 1, Len(app_name)))
  ELSE Title(app_name)

AppDirectories(app_name) ==
  << <<<<"migrations">>>>,
     <<<<"core">>>>,
     <<<<"models">>>>,
     <<<<"views">>>>,
     <<<<"serializers">>>>,
     <<<<"forms">>>>,
     <<<<"templates">>, app_name>>,
     <<<<"templates">>, app_name, <<"components">>>>,
     <<<<"static">>, app_name, <<"css">>>>,
     <<<<"static">>, app_name, <<"js">>>>,
     <<<<"static">>, app_name, <<"images">>>>,
     <<<<"services">>>>,
     <<<<"helpers">>>>,
     <<<<"api">>>>,
     <<<<"tests">>, <<"test_services">>>>,
     <<<<"management">>, <<"commands">>>> >>

AppMvfExamples ==
  << <<<<"models">>, <<"base.py">>>>,
     <<<<"views">>, <<"base.py">>>>,
     <<<<"serializers">>, <<"base.py">>>>,
     <<<<"forms">>, <<"base.py">>>> >>

AppFiles(app_name) ==
  << <<<<"__init__.py">>>>,
     <<<<"apps.py">>>>,
     <<<<"urls.py">>>>,
     <<<<"admin.py">>>>,
     <<<<"constants.py">>>>,
     <<<<"exceptions.py">>>>,
     <<<<"utils.py">>>>,
     <<<<"services">>, <<"data_service.py">>>>,
     <<<<"helpers">>, <<"formatters.py">>>>,
     <<<<"api">>, <<"views.py">>>>,
     <<<<"api">>, <<"urls.py">>>>,
     <<<<"tests">>, <<"test_models.py">>>>,
     <<<<"tests">>, <<"test_views.py">>>>,
     <<<<"tests">>, <<"test_services">>, <<"test_data_service.py">>>>,
     <<<<"management">>, <<"commands">>, <<"process_data.py">>>>,
     <<<<"templates">>, app_name, <<"base.html">>>>,
     <<<<"templates">>, app_name, <<"index.html">>>>,
     <<<<"templates">>, app_name, <<"components">>, <<"header.html">>>>,
     <<<<"static">>, app_name, <<"css">>, <<"style.css">>>>,
     <<<<"static">>, app_name, <<"js">>, <<"main.js">>>>,
     <<<<"bootstrap.py">>>>,
     <<<<"APP_DEVELOPMENT_GUIDE.md">>>> >>

\* the apps.py of an app; of the other files the header line
AppFileContent(file_path, app_name, normalized_app_name, class_name) ==
  IF file_path = << <<"apps.py">> >>
  THEN << <<"File: ", "apps/">> \o normalized_app_name \o <<"/", "apps.py">>,
          <<"class", " ">> \o class_name \o <<"Config", "(", "AppConfig", ")", ":">>,
          Indent4 \o <<"name", " ", "=", " ">> \o Quoted(<<"apps.">> \o normalized_app_name) >>
  ELSE FileText(<<"apps/">> \o app_name \o <<"/">> \o JoinPath(file_path))

\* for directory in directories: create_directory, and an __init__.py
\* outside templates/ and static/
RECURSIVE AppDirectoryLoop(_, _, _, _, _)
AppDirectoryLoop(acc, success, app_dir, app_name, directories) ==
  IF directories = <<>> THEN [acc |-> acc, success |-> success]
  ELSE LET directory == Head(directories)
       IN Bind(create_directory(acc, app_dir \o directory), LAMBDA d :
            IF d.failed
            THEN AppDirectoryLoop(d, FALSE, app_dir, app_name, Tail(directories))
            ELSE IF Len(directory) > 1 /\ Head(directory) \in {<<"templates">>, <<"static">>}
            THEN AppDirectoryLoop(d, success, app_dir, app_name, Tail(directories))
            ELSE Bind(create_file(d, app_dir \o directory \o <<InitPy>>,
                                  FileText(<<"apps/">> \o app_name \o <<"/">>
                                           \o JoinPath(directory \o <<InitPy>>))),
                      LAMBDA f :
                        IF f.failed
                        THEN AppDirectoryLoop(f, FALSE, app_dir, app_name, Tail(directories))
                        ELSE AppDirectoryLoop(f, success, app_dir, app_name,
                                              Tail(directories))))

\* for file_path, content in files.items(): create_file
RECURSIVE AppFileLoop(_, _, _, _, _)
AppFileLoop(acc, success, app_dir, app_name, files) ==
  IF files = <<>> THEN [acc |-> acc, success |-> success]
  ELSE LET normalized_app_name == normalize_app_name(app_name)
           class_name == get_app_class_name(normalized_app_name)
       IN Bind(create_file(acc, app_dir \o Head(files),
                           AppFileContent(Head(files), app_name, normalized_app_name,
                                          class_name)),
               LAMBDA f :
                 IF f.failed
                 THEN AppFileLoop(f, FALSE, app_dir, app_name, Tail(files))
                 ELSE AppFileLoop(f, success, app_dir, app_name, Tail(files)))

\* returns the progress and the success flag
create_app_structure(acc, app_name, base_dir) ==
  LET app_dir == base_dir \o AppsDir \o <<app_name>>
  IN Bind(create_directory(acc, app_dir), LAMBDA d :
       IF d.failed THEN [acc |-> d, success |-> FALSE]
       ELSE Bind(AppDirectoryLoop(d, TRUE, app_dir, app_name, AppDirectories(app_name)),
                 LAMBDA dirs :
                   Bind(AppFileLoop(dirs.acc, dirs.success, app_dir, app_name,
                                    AppMvfExamples),
                        LAMBDA mvf :
                          AppFileLoop(mvf.acc, mvf.success, app_dir, app_name,
                                      AppFiles(app_name)))))

\* app_configs of create_project_structure: one INSTALLED_APPS entry per
\* initial app
AppConfigEntry(app) ==
  Indent4 \o Quoted(<<"apps.">> \o app \o <<".apps.">>
                    \o Replace(Title(app), <<"_">>, <<>>) \o <<"Config">>) \o <<",">>

\* settings_base, the lines of the INSTALLED_APPS block (one entry stands
\* for the entries of the framework); without initial apps the block ends
\* with an empty line
settings_base(initial_apps) ==
  << <<"INSTALLED_APPS", " ", "=", " ", "[">>,
     Indent4 \o Quoted(<<"django.contrib.admin">>) \o <<",">> >>
  \o (IF initial_apps = <<>> THEN << <<>> >>
      ELSE [i \in 1..Len(initial_apps) |-> AppConfigEntry(initial_apps[i])])
  \o << <<"]">>, <<>> >>

\* urls_py, the imports and the urlpatterns block
UrlEntry(app) ==
  IF app = MainApp
  THEN Indent4 \o <<"path", "(", "'", "'", ",", " ", "include", "(">>
               \o Quoted(<<"apps.">> \o MainApp \o <<".urls">>)
               \o <<")", ")", ",", " ", " ", "#", " ", "root URL">>
  ELSE Indent4 \o <<"path", "(">> \o Quoted(app \o <<"/">>) \o <<",", " ", "include", "(">>
               \o Quoted(<<"apps.">> \o app \o <<".urls">>) \o <<")", ")", ",">>

urls_py(initial_apps) ==
  << <<"from django.", "contrib", " ", "import", " ", "admin">>,
     ImportPathInclude,
     <<"urlpatterns", " ", "=", " ", "[">>,
     Indent4 \o <<"path", "(">> \o Quoted(<<"a", "d", "m", "i", "n", "/">>)
             \o <<",", " ", "admin.site.urls", ")", ",">> >>
  \o [i \in 1..Len(initial_apps) |-> UrlEntry(initial_apps[i])]
  \o << <<"]">>, <<>> >>

Indent3 == <<" ", " ", " ">>
Indent8 == Indent4 \o Indent4

\* get_app_logger_config: the logger of the app and of its API (of the
\* settings of a logger, the level)
get_app_logger_config(app_name) ==
  << Indent8 \o Quoted(app_name) \o <<":", " ", "{">>,
     Indent8 \o Indent4 \o Quoted(<<"level">>) \o <<":", " ">> \o Quoted(<<"INFO">>) \o <<",">>,
     Indent8 \o <<"}", ",">>,
     Indent8 \o Quoted(app_name \o <<".api">>) \o <<":", " ", "{">>,
     Indent8 \o Indent4 \o Quoted(<<"level">>) \o <<":", " ">> \o Quoted(<<"INFO">>) \o <<",">>,
     Indent8 \o <<"}", ",">> >>

RECURSIVE Flatten(_)
Flatten(seqs) == IF seqs = <<>> THEN <<>> ELSE Head(seqs) \o Flatten(Tail(seqs))

\* get_logging_config_template().format(app_loggers=...): the loggers
\* dictionary, which the template closes with three spaces of indent; the
\* join of no loggers is one empty line
logging_config(initial_apps) ==
  << <<"LOGGING", " ", "=", " ", "{">>,
     Indent3 \o Quoted(<<"loggers">>) \o <<":", " ", "{">> >>
  \o (IF initial_apps = <<>> THEN << <<>> >>
      ELSE Flatten([i \in 1..Len(initial_apps) |-> get_app_logger_config(initial_apps[i])]))
  \o << Indent3 \o <<"}">>, <<"}">> >>

ProjectDirectories ==
  << <<<<"config">>, <<"settings">>>>,
     <<<<"apps">>>>,
     <<<<"static">>, <<"css">>>>,
     <<<<"static">>, <<"js">>>>,
     <<<<"static">>, <<"images">>>>,
     <<<<"templates">>, <<"shared">>>>,
     <<<<"media">>, <<"uploads">>>>,
     <<<<"docs">>>>,
     <<<<"common">>>>,
     <<<<"requirements">>>> >>

\* the directories that get an __init__.py
ProjectPackages ==
  { <<<<"apps">>>>, <<<<"common">>>>, <<<<"config">>>>, <<<<"config">>, <<"settings">>>> }

LoggingRel == ConfigDir \o << <<"settings">>, <<"logging_config.py">> >>
ManagePy == << <<"manage.py">> >>

files_to_create ==
  << <<<<"config">>, <<"settings">>, <<"base.py">>>>,
     <<<<"config">>, <<"settings">>, <<"local.py">>>>,
     <<<<"config">>, <<"settings">>, <<"production.py">>>>,
     <<<<"config">>, <<"settings">>, <<"logging_config.py">>>>,
     <<<<"config">>, <<"wsgi.py">>>>,
     <<<<"config">>, <<"asgi.py">>>>,
     <<<<"config">>, <<"urls.py">>>>,
     <<<<"manage.py">>>>,
     <<<<"requirements">>, <<"base.txt">>>>,
     <<<<"requirements">>, <<"local.txt">>>>,
     <<<<"requirements">>, <<"production.txt">>>>,
     <<<<".gitignore">>>>,
     <<<<".env">>>>,
     <<<<"README.md">>>>,
     <<<<"docs">>, <<"api.md">>>>,
     <<<<"docs">>, <<"deployment.md">>>>,
     <<<<"docs">>, <<"api_design_guide.md">>>>,
     <<<<"docs">>, <<"django_rest_api_lightweight_specification_and_implementation_guide.md">>>>,
     <<<<"common">>, <<"helpers.py">>>>,
     <<<<"common">>, <<"log_utils.py">>>>,
     <<<<"templates">>, <<"base.html">>>>,
     <<<<"templates">>, <<"shared">>, <<"header.html">>>>,
     <<<<"templates">>, <<"shared">>, <<"footer.html">>>> >>

ProjectFileContent(file_path, project_name, initial_apps) ==
  IF file_path = SettingsRel THEN settings_base(initial_apps)
  ELSE IF file_path = UrlsRel THEN urls_py(initial_apps)
  ELSE IF file_path = LoggingRel THEN logging_config(initial_apps)
  ELSE IF file_path = << <<"README.md">> >> THEN FileText(<<"# ">> \o project_name)
  ELSE FileText(JoinPath(file_path))

\* for directory in directories: create_directory, and an __init__.py in
\* the packages (in a directory that could not be created, create_file can
\* not write)
RECURSIVE ProjectDirectoryLoop(_, _, _)
ProjectDirectoryLoop(acc, cwd, directories) ==
  IF directories = <<>> THEN acc
  ELSE LET directory == Head(directories)
       IN Bind(create_directory(acc, cwd \o directory), LAMBDA d :
            IF d.failed \/ directory \notin ProjectPackages
            THEN ProjectDirectoryLoop(d, cwd, Tail(directories))
            ELSE Bind(create_file(d, cwd \o directory \o <<InitPy>>,
                                  FileText(JoinPath(directory \o <<InitPy>>))),
                      LAMBDA f : ProjectDirectoryLoop(f, cwd, Tail(directories))))

\* for file_path, content in files_to_create.items(): skip what exists,
\* create the rest
RECURSIVE ProjectFileLoop(_, _, _, _, _)
ProjectFileLoop(acc, cwd, project_name, initial_apps, files) ==
  IF files = <<>> THEN acc
  ELSE LET file_path == Head(files)
       IN IF Exists(acc.fs, cwd \o file_path)
          THEN ProjectFileLoop(acc, cwd, project_name, initial_apps, Tail(files))
          ELSE Bind(create_file(acc, cwd \o file_path,
                                ProjectFileContent(file_path, project_name, initial_apps)),
                    LAMBDA f :
                      ProjectFileLoop(f, cwd, project_name, initial_apps, Tail(files)))

\* content.replace("urlpatterns = [", "urlpatterns = [\n" + url_pattern):
\* the rest of a line with the anchor moves behind the new line
RECURSIVE AnchorEnd(_, _)
AnchorEnd(line, anchor) ==
  IF Len(line) < Len(anchor) THEN 0
  ELSE IF StartsWith(line, anchor) THEN Len(anchor)
  ELSE LET n == AnchorEnd(Tail(line), anchor) IN IF n = 0 THEN 0 ELSE n + 1

RECURSIVE InsertAfterAnchor(_, _, _)
InsertAfterAnchor(content, anchor, url_pattern) ==
  IF content = <<>> THEN <<>>
  ELSE LET line == Head(content)
           n == AnchorEnd(line, anchor)
       IN IF n = 0
          THEN <<line>> \o InsertAfterAnchor(Tail(content), anchor, url_pattern)
          ELSE <<SubSeq(line, 1, n)>>
               \o InsertAfterAnchor(<<url_pattern \o SubSeq(line, n + 1, Len(line))>>
                                      \o Tail(content), anchor, url_pattern)

UrlpatternsOpen == <<"urlpatterns", " ", "=", " ", "[">>

\* for app_name in INITIAL_APPS: the app, then its URL entry, which
\* create_file is asked to write into the config/urls.py just read; raised
\* tells that config/urls.py could not be read
RECURSIVE ProjectAppLoop(_, _, _)
ProjectAppLoop(acc, cwd, apps) ==
  IF apps = <<>> THEN [acc |-> acc, raised |-> FALSE]
  ELSE LET app_name == Head(apps)
       IN Bind(create_app_structure(acc, app_name, cwd).acc, LAMBDA a :
            IF cwd \o UrlsRel \notin DOMAIN a.fs.files
            THEN [acc |-> a, raised |-> TRUE]
            ELSE LET content == a.fs.files[cwd \o UrlsRel]
                     url_pattern ==
                       Indent4 \o <<"path", "(">> \o Quoted(app_name \o <<"/">>)
                               \o <<",", " ", "include", "(">>
                               \o Quoted(app_name \o <<".urls">>) \o <<")", ")", ",">>
                 IN IF ~InContent(<<"path", "(">> \o Quoted(app_name \o <<"/">>) \o <<",">>,
                                  content)
                    THEN Bind(create_file(a, cwd \o UrlsRel,
                                          InsertAfterAnchor(content, UrlpatternsOpen,
                                                            url_pattern)),
                              LAMBDA u : ProjectAppLoop(u, cwd, Tail(apps)))
                    ELSE ProjectAppLoop(a, cwd, Tail(apps)))

\* returns the progress, the working directory and "True", "False" or
\* "raise"
create_project_structure(acc, cwd, project_name, initial_apps) ==
  LET base_dir == cwd \o <<project_name>>
  IN Bind(create_directory(acc, base_dir), LAMBDA d :
       IF d.failed THEN [acc |-> d, cwd |-> cwd, ret |-> "False"]
       ELSE Bind(ProjectDirectoryLoop(d, base_dir, ProjectDirectories), LAMBDA dirs :
              Bind(ProjectFileLoop(dirs, base_dir, project_name, initial_apps,
                                   files_to_create),
                   LAMBDA files :
                     Bind(ProjectAppLoop(files, base_dir, initial_apps), LAMBDA apps :
                       [acc |-> apps.acc, cwd |-> base_dir,
                        ret |-> IF apps.raised THEN "raise" ELSE "True"]))))

\* --------------------------------------------------- the other updaters

\* the result of a patcher call taken over into the progress of main
Merge(acc, r) == [acc EXCEPT !.fs = r.fs, !.log = @ \o r.log]

\* main (or initialize_django_project) calls the function name for
\* app_name: the call is noted in the log, in front of the writes it makes
Call(acc, name, app_name) ==
  [acc EXCEPT !.log = Append(@, [target |-> "call", step |-> name, path |-> <<>>,
                                 existed |-> FALSE, changed |-> FALSE,
                                 content |-> <<app_name>>])]

LoggingBackupRel == BackupRoot \o << <<"logging_backups">> >>
LoggingPrefix == <<"logging_config.py.">>

\* content.replace('    }\n}', new_logger + '\n    }\n}'): a line that ends
\* with the four-space closing brace, followed by a line that starts with a
\* brace
RECURSIVE ReplaceClosing(_, _)
ReplaceClosing(content, new_logger) ==
  IF Len(content) < 2 THEN content
  ELSE LET closing == Indent4 \o <<"}">>
           line == content[1]
           next == content[2]
       IN IF EndsWith(line, closing) /\ StartsWith(next, <<"}">>)
          THEN <<SubSeq(line, 1, Len(line) - Len(closing)) \o Head(new_logger)>>
               \o Tail(new_logger) \o <<closing>>
               \o ReplaceClosing(<<next>> \o SubSeq(content, 3, Len(content)), new_logger)
          ELSE <<line>> \o ReplaceClosing(Tail(content), new_logger)

\* returns the progress and the flag; the backup receives the new content
add_app_logger_config(acc, app_name, project_dir, now) ==
  LET logging_config_path == project_dir \o LoggingRel
  IN IF logging_config_path \notin DOMAIN acc.fs.files
     THEN [acc |-> acc, ret |-> FALSE]
     ELSE LET content == acc.fs.files[logging_config_path]
          IN IF InContent(Quoted(app_name) \o <<":", " ", "{">>, content)
             THEN [acc |-> acc, ret |-> FALSE]
             ELSE LET backup_dir == project_dir \o LoggingBackupRel
                      backup_path == backup_dir \o <<BackupName(LoggingPrefix, now)>>
                  IN Bind(ReplaceClosing(content, get_app_logger_config(app_name)),
                          LAMBDA new_content :
                            Bind(DoWrite([acc EXCEPT !.fs = MakeDirs(@, backup_dir)],
                                         "backup", "logging_backup", backup_path,
                                         new_content, {}, FALSE),
                                 LAMBDA b :
                                   [acc |-> DoWrite(b, "live", "logging_write",
                                                    logging_config_path, new_content,
                                                    {}, FALSE),
                                    ret |-> TRUE]))

\* writes apps/<app>/CONFIG_GUIDE.md, whatever is there; an error is
\* reported and swallowed
generate_manual_config_guide(acc, app_name, project_name, base_dir, auto_updated) ==
  LET guide_file == base_dir \o AppsDir \o <<app_name, <<"CONFIG_GUIDE.md">>>>
  IN IF base_dir \o AppsDir \o <<app_name>> \in acc.fs.dirs
     THEN DoWrite(acc, "file", "config_guide", guide_file,
                  FileText(<<"CONFIG_GUIDE ">> \o app_name
                           \o (IF auto_updated THEN <<" updated">> ELSE <<>>)),
                  {}, FALSE)
     ELSE acc

\* 'django.contrib' in line or 'rest_framework' in line
HasFramework(line) ==
  \E i \in 1..Len(line) :
    line[i] \in {"django.contrib.admin", "rest_framework", "from rest_framework"}

\* the number of lines from the i-th on that name the framework
RECURSIVE FrameworkRun(_, _)
FrameworkRun(lines, i) ==
  IF i <= Len(lines) /\ HasFramework(lines[i]) THEN 1 + FrameworkRun(lines, i + 1) ELSE 0

\* insert_pos as the 1-based position of the inserted line, for the last
\* line with the opening of INSTALLED_APPS (the while loop starts on that
\* line itself); 0 = the code's -1
RECURSIVE InstalledAppsInsertPos(_, _, _)
InstalledAppsInsertPos(lines, i, insert_pos) ==
  IF i > Len(lines) THEN insert_pos
  ELSE IF In(<<"INSTALLED_APPS", " ", "=", " ", "[">>, lines[i])
       THEN InstalledAppsInsertPos(lines, i + 1, i + FrameworkRun(lines, i) + 1)
       ELSE InstalledAppsInsertPos(lines, i + 1, insert_pos)

\* hands the new content to create_file, which finds the file in place
update_installed_apps(acc, cwd, app_name) ==
  LET path == cwd \o SettingsRel
  IN IF path \notin DOMAIN acc.fs.files THEN acc
     ELSE LET content == acc.fs.files[path]
              insert_pos == InstalledAppsInsertPos(content, 1, 0)
          IN IF InContent(Quoted(app_name), content) \/ insert_pos = 0 THEN acc
             ELSE create_file(acc, path,
                              InsertAt(content, IF insert_pos > Len(content) + 1
                                                THEN Len(content) + 1 ELSE insert_pos,
                                       Indent4 \o Quoted(AppConfigName(app_name)) \o <<",">>))

\* the number of characters of a symbol
SymLen(c) ==
  CASE c = "from django." -> 12
    [] c \in {"urlpatterns"} -> 11
    [] c \in {"admin.site.urls"} -> 15
    [] c \in {"contrib", "include"} -> 7
    [] c \in {"import"} -> 6
    [] c \in {"apps.", ".urls", "admin"} -> 5
    [] c \in {"urls", "path"} -> 4
    [] OTHER -> 1

\* whether 'urlpatterns' occurs in content[:n]
RECURSIVE InPrefix(_, _)
InPrefix(symbols, n) ==
  IF symbols = <<>> \/ SymLen(Head(symbols)) > n THEN FALSE
  ELSE Head(symbols) = "urlpatterns" \/ InPrefix(Tail(symbols), n - SymLen(Head(symbols)))

RECURSIVE JoinLines(_)
JoinLines(content) ==
  IF Len(content) = 1 THEN content[1]
  ELSE content[1] \o <<"\n">> \o JoinLines(Tail(content))

\* the first line with a closing bracket at an index i (counted from 0) such
\* that 'urlpatterns' occurs in the first i characters; 0 = none
RECURSIVE UrlsInsertLine(_, _)
UrlsInsertLine(content, k) ==
  IF k > Len(content) THEN 0
  ELSE IF In(<<"]">>, content[k]) /\ InPrefix(JoinLines(content), k - 1) THEN k
  ELSE UrlsInsertLine(content, k + 1)

\* writes config/urls.py directly; the inserted text ends with a newline
update_urls_config(acc, cwd, app_name) ==
  LET path == cwd \o UrlsRel
  IN IF path \notin DOMAIN acc.fs.files THEN acc
     ELSE LET content == acc.fs.files[path]
              url_pattern ==
                IF app_name = MainApp
                THEN Indent4 \o <<"path", "(", "'", "'", ",", " ", "include", "(">>
                             \o Quoted(MainApp \o <<".urls">>)
                             \o <<")", ")", ",", " ", " ", "#", " ", "root URL">>
                ELSE Indent4 \o <<"path", "(">> \o Quoted(app_name \o <<"/">>)
                             \o <<",", " ", "include", "(">>
                             \o Quoted(app_name \o <<".urls">>) \o <<")", ")", ",">>
              k == UrlsInsertLine(content, 1)
              new_content == IF k = 0 THEN content
                             ELSE InsertAt(InsertAt(content, k, <<>>), k, url_pattern)
          IN IF InContent(<<"path", "(">> \o Quoted(app_name \o <<"/">>) \o <<",">>, content)
             THEN acc
             ELSE DoWrite(acc, "live", "update_urls_config", path, new_content, {}, FALSE)

\* for app_name in INITIAL_APPS of initialize_django_project
RECURSIVE InitializeAppLoop(_, _, _)
InitializeAppLoop(acc, cwd, apps) ==
  IF apps = <<>> THEN acc
  ELSE Bind(create_app_structure(Call(acc, "create_app_structure", Head(apps)),
                                 Head(apps), cwd).acc, LAMBDA a :
         Bind(update_installed_apps(Call(a, "update_installed_apps", Head(apps)),
                                    cwd, Head(apps)), LAMBDA s :
           Bind(update_urls_config(Call(s, "update_urls_config", Head(apps)),
                                   cwd, Head(apps)), LAMBDA u :
             InitializeAppLoop(u, cwd, Tail(apps)))))

initialize_django_project(acc, cwd, project_name, initial_apps) ==
  Bind(create_project_structure(Call(acc, "create_project_structure", project_name),
                                cwd, project_name, initial_apps), LAMBDA p :
    IF p.ret = "raise" THEN [acc |-> p.acc, cwd |-> p.cwd, ret |-> "False"]
    ELSE [acc |-> InitializeAppLoop(p.acc, p.cwd, initial_apps), cwd |-> p.cwd,
          ret |-> "True"])

\* ------------------------------------------------------------------ main

FORBIDDEN_APP_NAMES ==
  << <<"a", "d", "m", "i", "n">>,
     <<"a", "u", "t", "h">>,
     <<"c", "o", "n", "t", "e", "n", "t", "t", "y", "p", "e", "s">>,
     <<"s", "e", "s", "s", "i", "o", "n", "s">>,
     <<"m", "e", "s", "s", "a", "g", "e", "s">>,
     <<"s", "t", "a", "t", "i", "c", "f", "i", "l", "e", "s">>,
     <<"s", "i", "t", "e", "s">> >>

IsForbidden(app_name) ==
  \E i \in 1..Len(FORBIDDEN_APP_NAMES) : FORBIDDEN_APP_NAMES[i] = app_name

\* a check that looks at the first name of the list only
check_forbidden_app_names_first(app_names) ==
  app_names # <<>> /\ IsForbidden(app_names[1])

\* has_forbidden of check_forbidden_app_names; app_names is a list
check_forbidden_app_names(app_names) ==
  \E i \in 1..Len(app_names) : IsForbidden(app_names[i])

INITIAL_APPS == <<MainApp>>

\* Path.cwd().name
get_default_project_name(cwd) == cwd[Len(cwd)]

check_project_exists(fs, cwd, project_name) == Exists(fs, cwd \o <<project_name>>)

check_app_exists(fs, app_name, base_dir) == Exists(fs, base_dir \o AppsDir \o <<app_name>>)

\* a filter that takes every app that is not built in for a new one
filter_new_apps_all_new(fs, app_names, base_dir) ==
  [new_apps |-> SelectSeq(app_names, LAMBDA a : ~IsForbidden(a)),
   duplicate_apps |-> <<>>,
   forbidden_apps |-> SelectSeq(app_names, IsForbidden)]

filter_new_apps(fs, app_names, base_dir) ==
  LET Forbidden(a) == IsForbidden(a)
      Duplicate(a) == ~IsForbidden(a) /\ check_app_exists(fs, a, base_dir)
      New(a) == ~IsForbidden(a) /\ ~check_app_exists(fs, a, base_dir)
  IN [new_apps |-> SelectSeq(app_names, New),
      duplicate_apps |-> SelectSeq(app_names, Duplicate),
      forbidden_apps |-> SelectSeq(app_names, Forbidden)]

\* The command line.  An option that may be absent is a sequence of at
\* most one element: project <<>> is no -p, apps <<>> is no -a and apps
\* << <<>> >> is -a without names.
GuideOutput == <<"app_development_guide.md">>

\* args.project after parse_arguments
ProjectOf(args, cwd) ==
  IF args.project = <<>> THEN get_default_project_name(cwd) ELSE args.project[1]

\* the outcome of main: the file system, the working directory, the writes
\* and "True", "False" or "raise"
Outcome(acc, cwd, ret) == [fs |-> acc.fs, cwd |-> cwd, log |-> acc.log, ret |-> ret]

Bool(b) == IF b THEN "True" ELSE "False"

\* a restore mode that gives up when the settings could not be restored
MainRestore_short_circuit(acc, cwd, project_name, now) ==
  IF ~check_project_exists(acc.fs, cwd, project_name) THEN Outcome(acc, cwd, "False")
  ELSE LET dir == cwd \o <<project_name>>
       IN Bind(update_base_settings(acc.fs, dir, <<>>, TRUE, now, {}, FALSE),
               LAMBDA settings_restored :
                 IF settings_restored.ret # "True"
                 THEN Outcome(Merge(Call(acc, "update_base_settings", <<>>),
                                    settings_restored), dir, "False")
                 ELSE Bind(update_main_urls(settings_restored.fs, dir, <<>>, TRUE, now,
                                            {}, FALSE),
                           LAMBDA urls_restored :
                             Outcome(Merge(Call(Merge(Call(acc, "update_base_settings",
                                                           <<>>),
                                                      settings_restored),
                                                "update_main_urls", <<>>),
                                           urls_restored), dir,
                                     Bool(urls_restored.ret = "True"))))

\* the restore mode
MainRestore(acc, cwd, project_name, now) ==
  IF ~check_project_exists(acc.fs, cwd, project_name) THEN Outcome(acc, cwd, "False")
  ELSE LET dir == cwd \o <<project_name>>
       IN Bind(update_base_settings(acc.fs, dir, <<>>, TRUE, now, {}, FALSE),
               LAMBDA settings_restored :
                 Bind(update_main_urls(settings_restored.fs, dir, <<>>, TRUE, now,
                                       {}, FALSE),
                      LAMBDA urls_restored :
                        Outcome(Merge(Call(Merge(Call(acc, "update_base_settings", <<>>),
                                                 settings_restored),
                                           "update_main_urls", <<>>),
                                      urls_restored), dir,
                                Bool(settings_restored.ret = "True"
                                     /\ urls_restored.ret = "True"))))

\* for app_name in INITIAL_APPS: create_app_structure
RECURSIVE CreateApps(_, _, _)
CreateApps(acc, cwd, apps) ==
  IF apps = <<>> THEN acc
  ELSE Bind(create_app_structure(Call(acc, "create_app_structure", Head(apps)),
                                 Head(apps), cwd).acc, LAMBDA a :
         CreateApps(a, cwd, Tail(apps)))

\* an init mode that goes on to update the settings for its first app
MainInit_patching(acc, cwd, project_name, apps) ==
  IF check_project_exists(acc.fs, cwd, project_name) THEN Outcome(acc, cwd, "False")
  ELSE LET initial_apps == IF apps # <<>> THEN apps[1] ELSE INITIAL_APPS
       IN IF check_forbidden_app_names(initial_apps) THEN Outcome(acc, cwd, "False")
          ELSE Bind(create_project_structure(
                      Call(acc, "create_project_structure", project_name),
                      cwd, project_name, initial_apps),
                    LAMBDA p :
                      IF p.ret = "True"
                      THEN Bind(CreateApps(p.acc, p.cwd, initial_apps), LAMBDA c :
                             IF initial_apps = <<>> THEN Outcome(c, p.cwd, "True")
                             ELSE Outcome(Merge(Call(c, "update_base_settings",
                                                     initial_apps[1]),
                                                update_base_settings(c.fs, p.cwd,
                                                                     initial_apps[1], FALSE,
                                                                     1, {}, FALSE)),
                                          p.cwd, "True"))
                      ELSE Outcome(p.acc, p.cwd, p.ret))

\* the init mode
MainInit(acc, cwd, project_name, apps) ==
  IF check_project_exists(acc.fs, cwd, project_name) THEN Outcome(acc, cwd, "False")
  ELSE LET initial_apps == IF apps # <<>> THEN apps[1] ELSE INITIAL_APPS
       IN IF check_forbidden_app_names(initial_apps) THEN Outcome(acc, cwd, "False")
          ELSE Bind(create_project_structure(
                      Call(acc, "create_project_structure", project_name),
                      cwd, project_name, initial_apps),
                    LAMBDA p :
                      IF p.ret = "True"
                      THEN Outcome(CreateApps(p.acc, p.cwd, initial_apps), p.cwd, "True")
                      ELSE Outcome(p.acc, p.cwd, p.ret))

\* the add mode when the project does not exist
MainAddMissing(acc, cwd, project_name, apps) ==
  LET initial_apps == IF apps # <<>> THEN apps[1] ELSE INITIAL_APPS
  IN Bind(create_project_structure(Call(acc, "create_project_structure", project_name),
                                   cwd, project_name, initial_apps), LAMBDA p :
       IF p.ret = "raise" THEN Outcome(p.acc, p.cwd, "raise")
       ELSE Bind(filter_new_apps(p.acc.fs, initial_apps, p.cwd), LAMBDA filtered :
              IF filtered.forbidden_apps # <<>> THEN Outcome(p.acc, p.cwd, "False")
              ELSE IF filtered.new_apps = <<>> THEN Outcome(p.acc, p.cwd, "False")
              ELSE Bind(initialize_django_project(
                          Call(p.acc, "initialize_django_project", project_name),
                          p.cwd, project_name, filtered.new_apps),
                        LAMBDA i : Outcome(i.acc, i.cwd, i.ret))))

\* for app_name in new_apps of the add mode
RECURSIVE AddAppLoop(_, _, _, _, _, _, _)
AddAppLoop(acc, success, cwd, project_name, auto_update, now, new_apps) ==
  IF new_apps = <<>> THEN [acc |-> acc, success |-> success]
  ELSE LET app_name == Head(new_apps)
       IN Bind(create_app_structure(Call(acc, "create_app_structure", app_name),
                                    app_name, cwd), LAMBDA a :
            IF ~a.success
            THEN AddAppLoop(a.acc, FALSE, cwd, project_name, auto_update, now,
                            Tail(new_apps))
            ELSE IF auto_update
            THEN Bind(update_base_settings(a.acc.fs, cwd, app_name, FALSE, now, {}, FALSE),
                      LAMBDA settings_updated :
                 Bind(update_main_urls(settings_updated.fs, cwd, app_name, FALSE, now,
                                       {}, FALSE),
                      LAMBDA urls_updated :
                 Bind(add_app_logger_config(
                        Call(Merge(Call(Merge(Call(a.acc, "update_base_settings", app_name),
                                              settings_updated),
                                        "update_main_urls", app_name),
                                   urls_updated),
                             "add_app_logger_config", app_name),
                        app_name, cwd, now),
                      LAMBDA logging_updated :
                 Bind(generate_manual_config_guide(
                        Call(logging_updated.acc, "generate_manual_config_guide", app_name),
                        app_name, project_name, cwd, TRUE),
                      LAMBDA g :
                        IF settings_updated.ret = "True" /\ urls_updated.ret = "True"
                           /\ logging_updated.ret
                        THEN AddAppLoop(g, success, cwd, project_name, auto_update, now,
                                        Tail(new_apps))
                        ELSE AddAppLoop(g, FALSE, cwd, project_name, auto_update, now,
                                        Tail(new_apps))))))
            ELSE Bind(generate_manual_config_guide(
                        Call(a.acc, "generate_manual_config_guide", app_name),
                        app_name, project_name, cwd, FALSE),
                      LAMBDA g :
                        AddAppLoop(g, success, cwd, project_name, auto_update, now,
                                   Tail(new_apps))))

\* an add mode that updates the configuration whatever the command line says
MainAddExisting_updating(acc, cwd, project_name, apps, auto_update, now) ==
  IF apps = <<>> \/ apps = << <<>> >> THEN Outcome(acc, cwd, "False")
  ELSE LET dir == cwd \o <<project_name>>
       IN IF ~Exists(acc.fs, dir \o AppsDir) THEN Outcome(acc, dir, "False")
          ELSE Bind(filter_new_apps(acc.fs, apps[1], dir), LAMBDA filtered :
                 IF filtered.new_apps = <<>> THEN Outcome(acc, dir, "False")
                 ELSE Bind(AddAppLoop(acc, TRUE, dir, project_name, TRUE, now,
                                      filtered.new_apps),
                           LAMBDA r : Outcome(r.acc, dir, Bool(r.success))))

\* the add mode when the project exists
MainAddExisting(acc, cwd, project_name, apps, auto_update, now) ==
  IF apps = <<>> \/ apps = << <<>> >> THEN Outcome(acc, cwd, "False")
  ELSE LET dir == cwd \o <<project_name>>
       IN IF ~Exists(acc.fs, dir \o AppsDir) THEN Outcome(acc, dir, "False")
          ELSE Bind(filter_new_apps(acc.fs, apps[1], dir), LAMBDA filtered :
                 IF filtered.new_apps = <<>> THEN Outcome(acc, dir, "False")
                 ELSE Bind(AddAppLoop(acc, TRUE, dir, project_name, auto_update, now,
                                      filtered.new_apps),
                           LAMBDA r : Outcome(r.acc, dir, Bool(r.success))))

\* main, without the early check of the app names
MainUnchecked(fs, cwd, args, now) ==
  LET acc == Begin(fs)
      project_name == ProjectOf(args, cwd)
  IN IF args.guide
     THEN Outcome(DoWrite(acc, "file", "guide", cwd \o <<GuideOutput>>,
                          FileText(<<"app development guide">>), {}, FALSE),
                  cwd, "True")
     ELSE IF args.restore THEN MainRestore(acc, cwd, project_name, now)
     ELSE IF args.mode = "init" THEN MainInit(acc, cwd, project_name, args.apps)
     ELSE IF ~check_project_exists(fs, cwd, project_name)
     THEN MainAddMissing(acc, cwd, project_name, args.apps)
     ELSE MainAddExisting(acc, cwd, project_name, args.apps, args.auto_update, now)

main(fs, cwd, args, now) ==
  IF args.apps # <<>> /\ args.apps[1] # <<>> /\ check_forbidden_app_names(args.apps[1])
  THEN Outcome(Begin(fs), cwd, "False")
  ELSE MainUnchecked(fs, cwd, args, now)

\* the script: main, then execute_django_commands when main returned True
\* and --restore was not given; commands tells whether the commands of
\* manage.py were run ("run"), manage.py was not found in the working
\* directory ("no manage.py") or the function was not called ("none")
Script(fs, cwd, args, now) ==
  Bind(main(fs, cwd, args, now), LAMBDA r :
    [fs |-> r.fs, cwd |-> r.cwd, log |-> r.log, ret |-> r.ret,
     commands |-> IF r.ret = "True" /\ ~args.restore
                  THEN IF Exists(r.fs, r.cwd \o ManagePy) THEN "run" ELSE "no manage.py"
                  ELSE "none"])

\* one line of what execute_django_commands prints; code is the exit code
\* for the line that shows one, and 0 for every other line
Printed(text) == [text |-> text, code |-> 0]

\* the handler of subprocess.CalledProcessError
CommandFailed(code) ==
  << Printed("commands failed"), [text |-> "returncode", code |-> code],
     Printed("output") >>

\* execute_django_commands() in the directory cwd, where manage.py migrate
\* ends with the exit code migrate_code and manage.py check with check_code
\* (subprocess.run with check = True raises for every exit code but 0);
\* launched lists the commands that were run, printed the lines printed
execute_django_commands(fs, cwd, migrate_code, check_code) ==
  LET found == Exists(fs, cwd \o ManagePy)
      start == << Printed("start"), Printed("current directory"),
                  Printed(IF found THEN "manage.py found" ELSE "manage.py not found") >>
  IN IF ~found
     THEN [launched |-> <<>>, printed |-> start \o << Printed("cannot run") >>]
     ELSE IF migrate_code # 0
     THEN [launched |-> << <<"migrate", migrate_code>> >>,
           printed |-> start \o << Printed("migrate") >> \o CommandFailed(migrate_code)]
     ELSE IF check_code # 0
     THEN [launched |-> << <<"migrate", migrate_code>>, <<"check", check_code>> >>,
           printed |-> start \o << Printed("migrate"), Printed("stdout"), Printed("check") >>
                         \o CommandFailed(check_code)]
     ELSE [launched |-> << <<"migrate", migrate_code>>, <<"check", check_code>> >>,
           printed |-> start \o << Printed("migrate"), Printed("stdout"), Printed("check"),
                                    Printed("stdout"), Printed("commands done"),
                                    Printed("next steps"), Printed("urls") >>]

\* ------------------------------------------------------------ the model

MaxTime == 2

Blog == <<"b", "l", "o", "g">>
AppNames == {Blog, MainApp}

\* config/settings/base.py as the tool generates it for the app main
BaseGenerated == settings_base(<<MainApp>>)

\* a settings file without the anchor
BaseNoAnchor == << <<"DEBUG", " ", "=", " ", "True">>, <<>> >>

\* a settings file whose last entry is not followed by a comma, so that the
\* spliced content does not compile
BaseStarred ==
  << <<"INSTALLED_APPS", " ", "=", " ", "[">>,
     Indent4 \o Quoted(<<"django.contrib.admin">>) \o <<",">>,
     Indent4 \o <<"*", "EXTRA_APPS">>,
     <<"]">> >>

\* config/urls.py as the tool generates it for the app main
UrlsGenerated == urls_py(<<MainApp>>)

UrlsNoAnchor == << ImportPathInclude, <<>> >>

\* a URL configuration that imports path only
UrlsPathOnly ==
  << FromDjangoUrlsImport \o <<" ", "path">>,
     <<"urlpatterns", " ", "=", " ", "[">>,
     Indent4 \o <<"path", "(">> \o Quoted(<<"a", "d", "m", "i", "n", "/">>) \o <<",", " ", "admin.site.urls", ")", ",">>,
     <<"]">> >>

\* the states the two configuration files start in (no element: the file
\* does not exist), and whether the backup directories hold files of other
\* origin
InitialConfigs ==
  { [base |-> <<BaseGenerated>>, urls |-> <<UrlsGenerated>>, foreign |-> TRUE],
    [base |-> <<BaseNoAnchor>>, urls |-> <<UrlsNoAnchor>>, foreign |-> FALSE],
    [base |-> <<BaseStarred>>, urls |-> <<UrlsPathOnly>>, foreign |-> FALSE],
    [base |-> <<>>, urls |-> <<>>, foreign |-> FALSE] }

\* the directory the tool is started in and the project in it
\* (the project has the name of that directory, so that running the tool
\* without -p and with -p name the same project)
Work == << <<"work">> >>
Proj == <<"work">>
ProjectRoot == Work \o <<Proj>>

\* files of other origin in the backup directories
ForeignContent == << <<"#", " ", "notes">> >>
ForeignFiles ==
  (ProjectRoot \o BaseBackupRel \o << <<"base.py.", "orig">> >> :> ForeignContent)
  @@ (ProjectRoot \o BaseBackupRel \o << <<"urls.py.", "9", "9", ".bak">> >> :> ForeignContent)
  @@ (ProjectRoot \o UrlsBackupRel \o << <<"notes.txt">> >> :> ForeignContent)

NoFiles == [path \in {} |-> EmptyContent]

InitialFs(cfg) ==
  LET dirs == {Work, ProjectRoot, ProjectRoot \o ConfigDir,
               ProjectRoot \o ConfigDir \o << <<"settings">> >>}
      base == IF cfg.base = <<>> THEN NoFiles
              ELSE (ProjectRoot \o SettingsRel :> cfg.base[1])
      urls == IF cfg.urls = <<>> THEN NoFiles
              ELSE (ProjectRoot \o UrlsRel :> cfg.urls[1])
      fs0 == [dirs |-> dirs, files |-> base @@ urls]
  IN IF cfg.foreign
     THEN [get_backup_paths(fs0, ProjectRoot) EXCEPT !.files = ForeignFiles @@ @]
     ELSE fs0

\* the I/O errors of one call: the steps that raise and whether a failing
\* write truncates its target.  Only the combinations that differ in effect
\* are listed (a step after a failed backup or read is not reached, ...).
NoFault == [fail |-> {}, partial |-> FALSE]

PatchFaults ==
  {NoFault, [fail |-> {"read"}, partial |-> FALSE]}
  \cup [fail : {{"read", "fallback"}, {"backup"}, {"backup", "fallback"},
                {"write"}, {"write", "rollback"}, {"write", "fallback"},
                {"write", "rollback", "fallback"}},
        partial : BOOLEAN]

RestoreFaults == {NoFault} \cup [fail : {{"restore"}}, partial : BOOLEAN]

VARIABLES fs, now, ioerror, last, prev

vars == <<fs, now, ioerror, last, prev>>

\* what the model remembers of a call of update_base_settings or
\* update_main_urls: its outcome, its writes, the steps that raised and the
\* live file before it
CallRecord(r, pre) == [ret |-> r.ret, log |-> r.log, raised |-> r.raised, pre |-> pre]

NoCall == [ret |-> "none", log |-> <<>>, raised |-> {}, pre |-> <<>>]

NoRun == [op |-> "none", app |-> <<>>, base |-> NoCall, urls |-> NoCall]

\* the previous run, in short
Summary(run) ==
  [op |-> run.op, app |-> run.app,
   base |-> [ret |-> run.base.ret, clean |-> run.base.raised = {}],
   urls |-> [ret |-> run.urls.ret, clean |-> run.urls.raised = {}]]

LivePath(kind) == ProjectRoot \o (IF kind = "base" THEN SettingsRel ELSE UrlsRel)
BackupDir(kind) == ProjectRoot \o (IF kind = "base" THEN BaseBackupRel ELSE UrlsBackupRel)
BackupPrefix(kind) == IF kind = "base" THEN BasePrefix ELSE UrlsPrefix
Kinds == {"base", "urls"}

Init ==
  /\ \E cfg \in InitialConfigs : fs = InitialFs(cfg)
  /\ now = 1
  /\ ioerror = FALSE
  /\ last = NoRun
  /\ prev = Summary(NoRun)

\* the clock advances between two runs
Tick ==
  /\ ~ioerror
  /\ now < MaxTime
  /\ now' = now + 1
  /\ UNCHANGED <<fs, ioerror, last, prev>>

\* update_base_settings(app_name) followed by update_main_urls(app_name),
\* as the automatic update of main calls them, under the fault plans f[1]
\* and f[2]; an exception that leaves the first call ends the run
PatchRun(app_name, f) ==
  \E rb \in {update_base_settings(fs, ProjectRoot, app_name, FALSE, now,
                                  f[1].fail, f[1].partial)} :
    \E ru \in {IF rb.ret = "raise"
               THEN [fs |-> rb.fs, ret |-> "none", log |-> <<>>, raised |-> {}]
               ELSE update_main_urls(rb.fs, ProjectRoot, app_name, FALSE, now,
                                     f[2].fail, f[2].partial)} :
      /\ fs' = ru.fs
      /\ last' = [op |-> "patch", app |-> app_name,
                  base |-> CallRecord(rb, Snapshot(fs, LivePath("base"))),
                  urls |-> CallRecord(ru, Snapshot(fs, LivePath("urls")))]
      /\ prev' = Summary(last)
      /\ UNCHANGED now

\* update_base_settings('', restore=True) followed by
\* update_main_urls('', restore=True), as the restore mode of main calls them
RestoreRun(f) ==
  \E rb \in {update_base_settings(fs, ProjectRoot, <<>>, TRUE, now,
                                  f[1].fail, f[1].partial)} :
    \E ru \in {update_main_urls(rb.fs, ProjectRoot, <<>>, TRUE, now,
                                f[2].fail, f[2].partial)} :
      /\ fs' = ru.fs
      /\ last' = [op |-> "restore", app |-> <<>>,
                  base |-> CallRecord(rb, Snapshot(fs, LivePath("base"))),
                  urls |-> CallRecord(ru, Snapshot(fs, LivePath("urls")))]
      /\ prev' = Summary(last)
      /\ UNCHANGED now

\* runs in which every file operation succeeds
Patch ==
  /\ ~ioerror
  /\ \E app_name \in AppNames : PatchRun(app_name, <<NoFault, NoFault>>)
  /\ UNCHANGED ioerror

Restore ==
  /\ ~ioerror
  /\ RestoreRun(<<NoFault, NoFault>>)
  /\ UNCHANGED ioerror

\* runs in which one of the two calls meets I/O errors; a behaviour is
\* followed up to its first such run
OneFaulty(plans) ==
  {<<f, NoFault>> : f \in plans \ {NoFault}} \cup {<<NoFault, f>> : f \in plans \ {NoFault}}

PatchIOError ==
  /\ ~ioerror
  /\ \E app_name \in AppNames, f \in OneFaulty(PatchFaults) : PatchRun(app_name, f)
  /\ ioerror' = TRUE

RestoreIOError ==
  /\ ~ioerror
  /\ \E f \in OneFaulty(RestoreFaults) : RestoreRun(f)
  /\ ioerror' = TRUE

Next == Tick \/ Patch \/ Restore

Spec == Init /\ [][Next]_vars

NextIO == Next \/ PatchIOError \/ RestoreIOError

SpecIO == Init /\ [][NextIO]_vars

\* --- the command line tool and the scaffolding functions

Admin == <<"a", "d", "m", "i", "n">>

AppsInputs == { <<>>, << <<>> >>, << <<Blog>> >>, << <<Admin>> >>, << <<Blog, Admin>> >> }

MainArgs ==
  [mode : {"init", "add"}, project : {<<>>, <<Proj>>}, apps : AppsInputs,
   auto_update : BOOLEAN, guide : BOOLEAN, restore : BOOLEAN]

StartDirs == {Work}

InitMain ==
  /\ fs = [dirs |-> {Work}, files |-> NoFiles]
  /\ now = 1
  /\ ioerror = FALSE
  /\ last = NoRun
  /\ prev = Summary(NoRun)

\* whether the -a list of the command line holds the name of a built-in app
NamesForbidden(args) ==
  /\ args.apps # <<>>
  /\ \E i \in 1..Len(args.apps[1]) :
       args.apps[1][i] \in {FORBIDDEN_APP_NAMES[k] : k \in 1..Len(FORBIDDEN_APP_NAMES)}

\* one run of the script from the directory cwd; of the command line the
\* record of the run keeps whether it named a built-in app and --restore
Main ==
  \E args \in MainArgs, cwd \in StartDirs :
    /\ cwd \in fs.dirs
    /\ \E r \in {Script(fs, cwd, args, now)} :
         /\ fs' = r.fs
         /\ last' = [op |-> "main", forbidden |-> NamesForbidden(args),
                     restore |-> args.restore, cwd0 |-> cwd, cwd |-> r.cwd,
                     ret |-> r.ret, log |-> r.log, commands |-> r.commands]
    /\ UNCHANGED <<now, ioerror, prev>>

\* create_app_structure(app_name, project_name, base_dir) for the project
\* directory base_dir
CreateAppStructure ==
  \E app_name \in AppNames :
    /\ ProjectRoot \in fs.dirs
    /\ \E r \in {create_app_structure(Begin(fs), app_name, ProjectRoot)} :
         /\ fs' = r.acc.fs
         /\ last' = [op |-> "create_app_structure", app |-> app_name, cwd0 |-> ProjectRoot,
                     cwd |-> ProjectRoot, ret |-> Bool(r.success), log |-> r.acc.log,
                     failures |-> r.acc.raised]
    /\ UNCHANGED <<now, ioerror, prev>>

\* create_project_structure(project_name) in the directory Work
CreateProjectStructure ==
  /\ \E r \in {create_project_structure(Begin(fs), Work, Proj, INITIAL_APPS)} :
       /\ fs' = r.acc.fs
       /\ last' = [op |-> "create_project_structure", app |-> <<>>, cwd0 |-> Work,
                   cwd |-> r.cwd, ret |-> r.ret, log |-> r.acc.log,
                   failures |-> r.acc.raised]
  /\ UNCHANGED <<now, ioerror, prev>>

NextMain == Main \/ CreateAppStructure \/ CreateProjectStructure

SpecMain == InitMain /\ [][NextMain]_vars

\* --- the scaffolding functions in a directory that holds files already

\* files of other origin where the scaffolder wants a directory
Obstacles ==
  { ProjectRoot \o << <<"docs">> >>,
    ProjectRoot \o << <<"static">> >>,
    ProjectRoot \o AppsDir \o <<Blog, <<"models">>>>,
    ProjectRoot \o AppsDir \o <<MainApp, <<"templates">>>> }

InitScaffold ==
  /\ \E obstacles \in SUBSET Obstacles :
       fs = [dirs |-> {Work} \cup UNION { {SubSeq(path, 1, k) : k \in 1..(Len(path) - 1)} :
                                            path \in obstacles },
             files |-> [path \in obstacles |-> ForeignContent]]
  /\ now = 1
  /\ ioerror = FALSE
  /\ last = NoRun
  /\ prev = Summary(NoRun)

NextScaffold == CreateAppStructure \/ CreateProjectStructure

SpecScaffold == InitScaffold /\ [][NextScaffold]_vars

\* --- single runs of the script with their command line

\* the directories the observed run is started in: the directory that
\* holds the project, and the root directory of the project
RunDirs == {Work, ProjectRoot}

\* the command lines of these runs: with one or two apps that can be added
RunArgs ==
  [mode : {"init", "add"}, project : {<<>>, <<Proj>>},
   apps : AppsInputs \cup { << <<MainApp>> >>, << <<Blog, MainApp>> >> },
   auto_update : BOOLEAN, guide : BOOLEAN, restore : BOOLEAN]

\* an earlier run of the script, of which the file system it leaves is kept
\* (a run with --guide or with the name of a built-in app leaves nothing in
\* the project)
EarlierRun ==
  \E args \in {a \in RunArgs : ~a.guide /\ ~NamesForbidden(a) /\ a.project # <<>>} :
    /\ last.op = "none"
    /\ fs' = Script(fs, Work, args, now).fs
    /\ UNCHANGED <<now, ioerror, last, prev>>

\* the exit codes of the commands of manage.py
ExitCodes == {0, 1}

\* the run of the script that is observed, with its whole command line; a
\* behaviour ends with it.  Started in the directory that holds the
\* project, the run names the project with -p; started in the root
\* directory of the project, it names none.  The commands of manage.py
\* end with any of the exit codes.
Run ==
  \E args \in RunArgs, cwd \in RunDirs :
    /\ last.op = "none"
    /\ (args.project = <<>>) = (cwd = ProjectRoot)
    /\ cwd \in fs.dirs
    /\ \E r \in {Script(fs, cwd, args, now)} :
         /\ fs' = r.fs
         /\ \E migrate_code, check_code \in ExitCodes :
              \E e \in {IF r.commands = "none"
                         THEN [launched |-> <<>>, printed |-> <<>>]
                         ELSE execute_django_commands(r.fs, r.cwd, migrate_code,
                                                      check_code)} :
                last' = [op |-> "run", args |-> args, forbidden |-> NamesForbidden(args),
                         cwd0 |-> cwd, cwd |-> r.cwd, ret |-> r.ret, log |-> r.log,
                         commands |-> r.commands, launched |-> e.launched,
                         printed |-> e.printed]
    /\ UNCHANGED <<now, ioerror, prev>>

NextRun == Tick \/ EarlierRun \/ Run

SpecRun == InitMain /\ [][NextRun]_vars

\* --- add_app_logger_config on its own

\* a generated logging configuration after a formatter has given the
\* closing brace of the loggers section an indent of four
Reindented(content) ==
  [k \in 1..Len(content) |->
     IF content[k] = Indent3 \o <<"}">> THEN Indent4 \o <<"}">> ELSE content[k]]

GeneratedLoggingConfigs ==
  { logging_config(<<>>), logging_config(<<MainApp>>), logging_config(<<Blog>>) }

LoggingInputs ==
  GeneratedLoggingConfigs \cup { Reindented(content) : content \in GeneratedLoggingConfigs }

InitLogging ==
  /\ \E content \in LoggingInputs :
       fs = [dirs |-> {Work, ProjectRoot, ProjectRoot \o ConfigDir,
                       ProjectRoot \o ConfigDir \o << <<"settings">> >>},
             files |-> (ProjectRoot \o LoggingRel :> content)]
  /\ now = 1
  /\ ioerror = FALSE
  /\ last = NoRun
  /\ prev = Summary(NoRun)

\* add_app_logger_config(app_name) in the root directory of the project;
\* pre is the content of logging_config.py before the call
AddAppLoggerConfig ==
  \E app_name \in AppNames :
    \E r \in {add_app_logger_config(Begin(fs), app_name, ProjectRoot, now)} :
      /\ fs' = r.acc.fs
      /\ last' = [op |-> "add_app_logger_config", app |-> app_name,
                  pre |-> fs.files[ProjectRoot \o LoggingRel],
                  ret |-> Bool(r.ret), log |-> r.acc.log]
      /\ UNCHANGED <<now, ioerror, prev>>

NextLogging == Tick \/ AddAppLoggerConfig

SpecLogging == InitLogging /\ [][NextLogging]_vars

\* --- an app with a name of any form, created and patched in

MaxNameLen == 3

\* app names of lower-case and capital letters and underscores that start
\* with a letter
NameLetters == {"a", "b", "A", "B"}
NameInputs ==
  { name \in UNION { [1..n -> NameLetters \cup {"_"}] : n \in 1..MaxNameLen } :
      name[1] \in NameLetters }

InitNames ==
  /\ fs = InitialFs([base |-> <<BaseGenerated>>, urls |-> <<UrlsGenerated>>,
                     foreign |-> FALSE])
  /\ now = 1
  /\ ioerror = FALSE
  /\ last = NoRun
  /\ prev = Summary(NoRun)

\* create_app_structure(app_name, project_name, base_dir), as the add mode
\* calls it for a new app
ScaffoldNamed ==
  \E app_name \in NameInputs :
    /\ last.op = "none"
    /\ \E r \in {create_app_structure(Begin(fs), app_name, ProjectRoot)} :
         /\ fs' = r.acc.fs
         /\ last' = [op |-> "create_app_structure", app |-> app_name,
                     ret |-> Bool(r.success)]
    /\ UNCHANGED <<now, ioerror, prev>>

\* update_base_settings(app_name) for the app just created, as the add
\* mode calls it with --auto-update; initial is the entry that
\* create_project_structure writes for the app when it is an initial app
PatchNamed ==
  /\ last.op = "create_app_structure"
  /\ \E r \in {update_base_settings(fs, ProjectRoot, last.app, FALSE, now, {}, FALSE)} :
       /\ fs' = r.fs
       /\ last' = [op |-> "update_base_settings", app |-> last.app, ret |-> r.ret,
                   pre |-> fs.files[LivePath("base")],
                   initial |-> AppConfigEntry(last.app)]
  /\ UNCHANGED <<now, ioerror, prev>>

NextNames == ScaffoldNamed \/ PatchNamed

SpecNames == InitNames /\ [][NextNames]_vars

\* --- the two splice functions on their own

MaxEntries == 2

\* the lines a settings file may hold between the opening and the closing
\* line of INSTALLED_APPS: entries with an indent of four and of two, a
\* comment with an indent of its own, an empty line, an entry followed by a
\* comment with brackets, and an entry that names the app blog
EntryLines ==
  { Indent4 \o Quoted(<<"django.contrib.admin">>) \o <<",">>,
    <<" ", " ">> \o Quoted(<<"rest_framework">>) \o <<",">>,
    Indent4 \o <<" ", " ", "#", " ", "a", "d", "d", "o", "n">>,
    <<>>,
    Indent4 \o Quoted(<<"rest_framework">>) \o <<",", " ", " ", "#", " ", "[", "a", "]">>,
    Indent4 \o Quoted(Blog) \o <<",">> }

\* the line that opens the block: bare, or followed by a comment with
\* brackets
OpeningLines ==
  { <<"INSTALLED_APPS", " ", "=", " ", "[">>,
    <<"INSTALLED_APPS", " ", "=", " ", "[", " ", " ", "#", " ", "[", "a", "]">> }

SettingsInputs ==
  { << <<"DEBUG", " ", "=", " ", "True">>, opening >>
      \o entries \o << <<"]">>, <<>> >> :
    opening \in OpeningLines,
    entries \in UNION { [1..n -> EntryLines] : n \in 0..MaxEntries } }

\* a URL configuration that imports re_path and include
UrlsRePath ==
  << FromDjangoUrlsImport \o <<" ", "re_", "path", ",", " ", "include">>,
     <<"urlpatterns", " ", "=", " ", "[">>,
     Indent4 \o <<"re_", "path", "(">> \o Quoted(<<"a", "d", "m", "i", "n", "/">>)
             \o <<",", " ", "admin.site.urls", ")", ",">>,
     <<"]">> >>

UrlsInputs == {UrlsGenerated, UrlsNoAnchor, UrlsPathOnly, UrlsRePath}

InitSplice ==
  /\ \E base \in SettingsInputs, urls \in UrlsInputs :
       fs = InitialFs([base |-> <<base>>, urls |-> <<urls>>, foreign |-> FALSE])
  /\ now = 1
  /\ ioerror = FALSE
  /\ last = NoRun
  /\ prev = Summary(NoRun)

\* the record of a call of a splice function: the content it was given and
\* what it returned
Spliced(op, app_name, content, r) ==
  [op |-> op, app |-> app_name, pre |-> content, content |-> r.content,
   has_update |-> r.has_update]

\* append_app_to_base_settings on the settings file; the file takes the
\* content returned
AppendApp ==
  \E app_name \in AppNames :
    \E r \in {append_app_to_base_settings(fs.files[LivePath("base")], app_name)} :
      /\ fs' = WriteFile(fs, LivePath("base"), r.content)
      /\ last' = Spliced("append_app_to_base_settings", app_name,
                         fs.files[LivePath("base")], r)
      /\ UNCHANGED <<now, ioerror, prev>>

\* append_url_to_main_urls on the URL configuration
AppendUrl ==
  \E app_name \in AppNames :
    \E r \in {append_url_to_main_urls(fs.files[LivePath("urls")], app_name)} :
      /\ fs' = WriteFile(fs, LivePath("urls"), r.content)
      /\ last' = Spliced("append_url_to_main_urls", app_name,
                         fs.files[LivePath("urls")], r)
      /\ UNCHANGED <<now, ioerror, prev>>

NextSplice == AppendApp \/ AppendUrl

SpecSplice == InitSplice /\ [][NextSplice]_vars

\* --------------------------------------------------------------- claims

CallOf(run, kind) == IF kind = "base" THEN run.base ELSE run.urls
Live(kind) == Snapshot(fs, LivePath(kind))
Anchor(kind) == IF kind = "base" THEN INSTALLED_APPS ELSE urlpatterns

\* C1: two patch calls in a row with the same app name: the second call
\* leaves the live file with the content it had after the first call
C1_PatchIdempotent ==
  \A kind \in Kinds :
    (last.op = "patch" /\ prev.op = "patch" /\ prev.app = last.app)
      => Live(kind) = CallOf(last, kind).pre

\* the first call inserted the entry into both files, the second found it
C1_Witness ==
  /\ last.op = "patch" /\ prev.op = "patch" /\ prev.app = last.app
  /\ prev.base.ret = "True" /\ prev.urls.ret = "True"
  /\ last.base.ret = "False" /\ last.urls.ret = "False"

\* C2: a restore call that follows a patch call on an existing config file
\* leaves the live file with the content it had before the patch call
C2_RoundTrip ==
  [][ (last.op = "patch" /\ last'.op = "restore")
        => \A kind \in Kinds :
             CallOf(last, kind).pre # <<>>
               => Snapshot(fs', LivePath(kind)) = CallOf(last, kind).pre ]_vars

\* the patch changed both files, an older backup with another content was
\* around, and the restore brought the content before the patch back
C2_Witness ==
  /\ last.op = "restore" /\ prev.op = "patch"
  /\ prev.base.ret = "True" /\ prev.urls.ret = "True"
  /\ \A kind \in Kinds :
       /\ CallOf(last, kind).ret = "True"
       /\ Live(kind) # CallOf(last, kind).pre
       /\ \E f \in MatchingBackups(fs, BackupDir(kind), BackupPrefix(kind)) :
            <<fs.files[BackupDir(kind) \o <<f>>]>> # Live(kind)

\* the backup writes among the first n writes of a call
BackupWrites(log, n) == {i \in 1..n : log[i].target = "backup"}

\* C3: in a patch call, every write that changes the live file comes after
\* exactly one backup write, which wrote the content the live file had when
\* the call began
C3_BackupPrecedesMutation ==
  \A kind \in Kinds :
    LET call == CallOf(last, kind)
    IN last.op = "patch"
         => \A i \in 1..Len(call.log) :
              (call.log[i].target = "live" /\ call.log[i].changed)
                => /\ Cardinality(BackupWrites(call.log, i - 1)) = 1
                   /\ \A j \in BackupWrites(call.log, i - 1) :
                        <<call.log[j].content>> = call.pre

\* C4: a patch call on a config file without the anchor token returns False
\* and leaves the live file as it was
C4_MissingAnchor ==
  \A kind \in Kinds :
    LET call == CallOf(last, kind)
    IN (last.op = "patch" /\ call.pre # <<>> /\ ~InContent(Anchor(kind), call.pre[1]))
         => call.ret = "False" /\ Live(kind) = call.pre

C4_Witness ==
  /\ last.op = "patch"
  /\ \A kind \in Kinds :
       /\ CallOf(last, kind).pre # <<>>
       /\ ~InContent(Anchor(kind), CallOf(last, kind).pre[1])
       /\ CallOf(last, kind).ret = "False"

\* the backup names of kind that match the naming pattern, in a file system
BackupsIn(f, kind) ==
  { g \in ListDir(f, BackupDir(kind)) :
      StartsWith(g, BackupPrefix(kind)) /\ EndsWith(g, BakSuffix) }

\* C5: a run of create_app_structure or create_project_structure leaves
\* every file that existed before it in place with the content it had, and
\* none of its create_file calls writes to a path that existed
C5_NoOverwrite ==
  [][ last'.op \in {"create_app_structure", "create_project_structure"}
        => /\ \A path \in DOMAIN fs.files :
                path \in DOMAIN fs'.files /\ fs'.files[path] = fs.files[path]
           /\ \A i \in 1..Len(last'.log) :
                last'.log[i].step = "create_file" => ~last'.log[i].existed ]_vars

\* a further run of create_project_structure on a project whose settings
\* and URL configuration were patched since they were generated: the run
\* wrote nothing and the patched files are still there
C5_Witness ==
  /\ last.op = "create_project_structure"
  /\ last.log = <<>>
  /\ ProjectRoot \o SettingsRel \in DOMAIN fs.files
  /\ fs.files[ProjectRoot \o SettingsRel] # settings_base(INITIAL_APPS)
  /\ fs.files[ProjectRoot \o UrlsRel] # urls_py(INITIAL_APPS)

C7_RestoreWithoutBackup ==
  [][ \A kind \in Kinds :
        (last'.op = "restore" /\ now' = now /\ BackupsIn(fs, kind) = {})
          => /\ CallOf(last', kind).ret = "False"
             /\ Snapshot(fs', LivePath(kind)) = Snapshot(fs, LivePath(kind)) ]_vars

\* a restore that failed on an existing live file although the backup
\* directory holds files (none of them matching)
C7_Witness ==
  /\ last.op = "restore"
  /\ last.base.ret = "False"
  /\ Live("base") # <<>>
  /\ ListDir(fs, BackupDir("base")) # {}
  /\ BackupsIn(fs, "base") = {}

\* C8: a restore call that finds matching backups copies the one with the
\* greatest name over the live file and returns True
C8_RestoreLatest ==
  [][ \A kind \in Kinds :
        (last'.op = "restore" /\ now' = now /\ BackupsIn(fs, kind) # {})
          => /\ CallOf(last', kind).ret = "True"
             /\ \E f \in BackupsIn(fs, kind) :
                  /\ \A g \in BackupsIn(fs, kind) : g = f \/ LexLess(g, f)
                  /\ Snapshot(fs', LivePath(kind))
                       = <<fs.files[BackupDir(kind) \o <<f>>]>> ]_vars

\* a restore that changed the base settings, with two matching backups of
\* different content and other files in the directory
C8_Witness ==
  /\ last.op = "restore"
  /\ last.base.ret = "True"
  /\ Live("base") # last.base.pre
  /\ \E f, g \in BackupsIn(fs, "base") :
       fs.files[BackupDir("base") \o <<f>>] # fs.files[BackupDir("base") \o <<g>>]
  /\ ListDir(fs, BackupDir("base")) # BackupsIn(fs, "base")

C10_NoExceptionEscapes ==
  \A kind \in Kinds :
    LET call == CallOf(last, kind)
    IN last.op = "patch"
         => /\ call.ret # "raise"
            /\ call.raised # {} => call.ret = "False"

\* the position of the first line from the i-th on that holds c (0 = none)
RECURSIVE FirstLineWith(_, _, _)
FirstLineWith(c, lines, i) ==
  IF i > Len(lines) THEN 0
  ELSE IF \E j \in 1..Len(lines[i]) : lines[i][j] = c THEN i
  ELSE FirstLineWith(c, lines, i + 1)

\* the line that opens INSTALLED_APPS and the first line with a closing
\* bracket that follows it
OpeningLine(lines) ==
  CHOOSE i \in 1..Len(lines) :
    /\ LStrip(lines[i]) # <<>> /\ Head(LStrip(lines[i])) = "INSTALLED_APPS"
    /\ FirstLineWith("[", <<lines[i]>>, 1) = 1
ClosingLine(lines) == FirstLineWith("]", lines, OpeningLine(lines) + 1)

\* the lines of the block that are neither blank nor a comment
EntryPositions(lines) ==
  { i \in (OpeningLine(lines) + 1)..(ClosingLine(lines) - 1) :
      LStrip(lines[i]) # <<>> /\ Head(LStrip(lines[i])) # "#" }

\* the spaces a line starts with
RECURSIVE Spaces(_)
Spaces(line) ==
  IF line # <<>> /\ Head(line) = " " THEN <<" ">> \o Spaces(Tail(line)) ELSE <<>>

ProjectDir(run) ==
  run.cwd0 \o <<IF run.args.project = <<>> THEN run.cwd0[Len(run.cwd0)]
                ELSE run.args.project[1]>>
AddOnExisting(run, f) ==
  /\ run.args.mode = "add" /\ ~run.args.guide /\ ~run.args.restore /\ ~run.forbidden
  /\ ProjectDir(run) \in f.dirs

\* the positions of the log at which the function name is called for app
CallsOf(log, name, app_name) ==
  { i \in 1..Len(log) : /\ log[i].target = "call" /\ log[i].step = name
                         /\ log[i].content = <<app_name>> }

\* the apps of the command line that the project in f does not hold
NewApps(run, f) ==
  IF run.args.apps = <<>> THEN {}
  ELSE { run.args.apps[1][i] : i \in
           { j \in 1..Len(run.args.apps[1]) :
               ~Exists(f, ProjectDir(run) \o AppsDir \o <<run.args.apps[1][j]>>) } }

\* path lies in the directory dir or below it
Below(path, dir) == Len(path) > Len(dir) /\ SubSeq(path, 1, Len(dir)) = dir

\* C12: a run of the add mode on an existing project without --auto-update
\* leaves config/settings/base.py, config/urls.py and
\* config/settings/logging_config.py as they were, writes no file below
\* config/app_append_backups and calls generate_manual_config_guide for
\* every app it creates; with --auto-update it calls update_base_settings
\* and update_main_urls for every app it creates, after creating it
C12_AutoUpdateGates ==
  [][ (last.op = "none" /\ last'.op = "run" /\ AddOnExisting(last', fs))
        => LET dir == ProjectDir(last')
               log == last'.log
           IN IF ~last'.args.auto_update
              THEN /\ \A rel \in {SettingsRel, UrlsRel, LoggingRel} :
                        Snapshot(fs', dir \o rel) = Snapshot(fs, dir \o rel)
                   /\ \A path \in DOMAIN fs'.files :
                        Below(path, dir \o BackupRoot)
                          => path \in DOMAIN fs.files /\ fs'.files[path] = fs.files[path]
                   /\ \A i \in 1..Len(log) :
                        /\ log[i].target # "backup"
                        /\ log[i].step \notin {"update_base_settings", "update_main_urls",
                                                "add_app_logger_config"}
                   /\ \A a \in NewApps(last', fs) :
                        CallsOf(log, "generate_manual_config_guide", a) # {}
              ELSE \A a \in NewApps(last', fs) :
                     \E c \in CallsOf(log, "create_app_structure", a) :
                       /\ \E i \in CallsOf(log, "update_base_settings", a) : c < i
                       /\ \E i \in CallsOf(log, "update_main_urls", a) : c < i ]_vars

\* a run without --auto-update that created the app blog in a project that
\* has backups from an earlier update
C12_Witness ==
  /\ last.op = "run" /\ last.args.mode = "add" /\ ~last.args.auto_update
  /\ last.ret = "True" /\ last.cwd0 = Work
  /\ CallsOf(last.log, "generate_manual_config_guide", Blog) # {}
  /\ CallsOf(last.log, "create_project_structure", Proj) = {}
  /\ BackupsIn(fs, "base") # {}

\* the calls noted in a log, in order
RECURSIVE CallsIn(_)
CallsIn(log) ==
  IF log = <<>> THEN <<>>
  ELSE (IF Head(log).target = "call" THEN <<Head(log).step>> ELSE <<>>)
         \o CallsIn(Tail(log))

\* C13: a run with --restore on an existing project (without --guide and
\* without the name of a built-in app) calls update_base_settings and then
\* update_main_urls, both in any case, and nothing else; its only writes
\* are the copies of a backup over the two live files; it leaves every
\* other file as it was and creates no file; and it returns True exactly
\* when both files had a backup to restore from
C13_RestoreOnly ==
  [][ (/\ last.op = "none" /\ last'.op = "run"
       /\ last'.args.restore /\ ~last'.args.guide /\ ~last'.forbidden
       /\ ProjectDir(last') \in fs.dirs)
        => LET dir == ProjectDir(last')
               log == last'.log
               live == {dir \o SettingsRel, dir \o UrlsRel}
               Backups(rel, prefix) ==
                 { path \in DOMAIN fs.files :
                     /\ Len(path) = Len(dir \o rel) + 1 /\ Below(path, dir \o rel)
                     /\ path[Len(path)][1] = prefix
                     /\ path[Len(path)][Len(path[Len(path)])] = ".bak" }
           IN /\ CallsIn(log) = <<"update_base_settings", "update_main_urls">>
              /\ \A i \in 1..Len(log) :
                   log[i].target # "call"
                     => /\ log[i].step = "restore" /\ log[i].path \in live
                        /\ \E b \in DOMAIN fs.files :
                             Below(b, dir \o BackupRoot) /\ fs.files[b] = log[i].content
              /\ \A path \in DOMAIN fs'.files :
                   path \notin live
                     => path \in DOMAIN fs.files /\ fs'.files[path] = fs.files[path]
              /\ (last'.ret = "True")
                   = (/\ Backups(BaseBackupRel, "base.py.") # {}
                      /\ Backups(UrlsBackupRel, "urls.py.") # {}) ]_vars

\* a restore run that returned True and brought back another content, in
\* a project with two backups of the settings
C13_Witness ==
  /\ last.op = "run" /\ last.args.restore /\ ~last.args.guide
  /\ last.ret = "True"
  /\ \E i \in 1..Len(last.log) : last.log[i].step = "restore" /\ last.log[i].changed
  /\ Cardinality(BackupsIn(fs, "base")) >= 2

\* the apps whose directory a step creates in the project directory dir
CreatedApps(f, g, dir) ==
  { path[Len(path)] : path \in
      { q \in g.dirs \ f.dirs : Len(q) = Len(dir) + 2 /\ Below(q, dir \o AppsDir) } }

\* for app, a call of create_app_structure or of create_project_structure
\* comes first and calls of update_base_settings and of update_main_urls
\* come after it
ScaffoldThenPatch(log, app_name) ==
  \E c \in 1..Len(log) :
    /\ log[c].target = "call"
    /\ log[c].step \in {"create_app_structure", "create_project_structure"}
    /\ \E i \in CallsOf(log, "update_base_settings", app_name) : c < i
    /\ \E i \in CallsOf(log, "update_main_urls", app_name) : c < i

\* C14 as stated: a successful run of the init mode or of the add mode
\* calls the scaffolder and afterwards update_base_settings and
\* update_main_urls for the apps it created
C14_ScaffoldThenPatch ==
  [][ (/\ last.op = "none" /\ last'.op = "run"
       /\ ~last'.args.guide /\ ~last'.args.restore /\ last'.ret = "True")
        => \A a \in CreatedApps(fs, fs', last'.cwd) : ScaffoldThenPatch(last'.log, a) ]_vars

\* C14, amended: a run of the add mode with --auto-update on an existing
\* project calls, for every app it creates, create_app_structure and
\* afterwards update_base_settings and update_main_urls, and it calls the
\* two for no other app; a run of the init mode, of the add mode without
\* --auto-update and of the add mode on a missing project calls neither of
\* the two and writes no backup, and when such a run succeeds a call of the
\* scaffolder comes first
C14_PatchOnAutoUpdateOnly ==
  [][ (/\ last.op = "none" /\ last'.op = "run"
       /\ ~last'.args.guide /\ ~last'.args.restore /\ ~last'.forbidden)
        => LET log == last'.log
               patchers == {"update_base_settings", "update_main_urls"}
           IN IF /\ last'.args.mode = "add" /\ last'.args.auto_update
                 /\ ProjectDir(last') \in fs.dirs
              THEN /\ \A a \in CreatedApps(fs, fs', last'.cwd) :
                        ScaffoldThenPatch(log, a)
                   /\ \A i \in 1..Len(log) :
                        (log[i].target = "call" /\ log[i].step \in patchers)
                          => log[i].content[1] \in CreatedApps(fs, fs', last'.cwd)
              ELSE /\ \A i \in 1..Len(log) :
                        /\ log[i].target = "call" => log[i].step \notin patchers
                        /\ log[i].target # "backup"
                   /\ last'.ret = "True"
                        => /\ log # <<>>
                           /\ log[1].target = "call"
                           /\ log[1].step \in {"create_app_structure",
                                                "create_project_structure"} ]_vars

\* a successful run of the init mode that created the project with the
\* app blog and called neither patcher
C14_Witness ==
  /\ last.op = "run" /\ last.args.mode = "init" /\ last.ret = "True"
  /\ ~last.args.guide /\ ~last.args.restore
  /\ CallsOf(last.log, "create_project_structure", Proj) # {}
  /\ CallsOf(last.log, "create_app_structure", Blog) # {}
  /\ CallsOf(last.log, "update_base_settings", Blog) = {}
  /\ ProjectRoot \o AppsDir \o <<Blog>> \in fs.dirs

\* what a run with --guide leaves of the file system f in g: the guide
\* file in the directory the run was started in, and nothing else created
\* or changed
OnlyGuideWritten(run, f, g) ==
  /\ g.dirs = f.dirs
  /\ \A path \in DOMAIN g.files :
       path # run.cwd0 \o <<GuideOutput>>
         => path \in DOMAIN f.files /\ g.files[path] = f.files[path]
  /\ CallsIn(run.log) = <<>>

\* C15: a run with --guide (and without the name of a built-in app) writes
\* the guide file and nothing else, calls no scaffolder and no patcher, and
\* does not run the commands of manage.py, whatever the other flags and
\* whatever the directory it is started in holds
C15_GuideOnly ==
  [][ (/\ last.op = "none" /\ last'.op = "run"
       /\ last'.args.guide /\ ~last'.forbidden)
        => /\ OnlyGuideWritten(last', fs, fs')
           /\ last'.commands # "run" ]_vars

\* the texts of the lines a run printed in execute_django_commands
PrintedTexts(run) == {run.printed[i].text : i \in 1..Len(run.printed)}

\* C17: when a command of manage.py run by execute_django_commands ends
\* with an exit code other than 0, the exit code and the captured output
\* are printed, and the next steps and the URLs are printed as well
C17_GuidanceAfterFailure ==
  (last.op = "run" /\ \E i \in 1..Len(last.launched) : last.launched[i][2] # 0)
    => /\ \E i \in 1..Len(last.launched), k \in 1..Len(last.printed) :
            /\ last.launched[i][2] # 0
            /\ last.printed[k] = [text |-> "returncode", code |-> last.launched[i][2]]
       /\ {"output", "next steps", "urls"} \subseteq PrintedTexts(last)

\* C18: no step of a sequence of runs of the script (init, add with and
\* without --auto-update, restore) removes anything: every directory that
\* exists before the step exists after it, and so does every file, the
\* backup files among them
C18_NothingDeleted ==
  [][ /\ fs.dirs \subseteq fs'.dirs
      /\ DOMAIN fs.files \subseteq DOMAIN fs'.files ]_vars

\* a run that wrote its backup over the backup of an earlier run of the
\* same second, giving it another content, in a project whose directories
\* and whose app main are still there
C18_Witness ==
  /\ last.op = "run" /\ ~last.args.guide /\ ~last.args.restore
  /\ \E i \in 1..Len(last.log) :
       /\ last.log[i].target = "backup" /\ last.log[i].existed /\ last.log[i].changed
       /\ last.log[i].path \in DOMAIN fs.files
  /\ ProjectRoot \o AppsDir \o <<MainApp>> \in fs.dirs
  /\ ProjectRoot \o BaseBackupRel \in fs.dirs

\* C19: a run without -p that is started in the root directory of an
\* existing project works on that project: it creates no project directory
\* inside it; with --restore it calls the two patchers in restore mode
\* rather than reporting the project missing; in the add mode it creates
\* every new app of the command line under apps of that directory
C19_DefaultProject ==
  [][ (/\ last.op = "none" /\ last'.op = "run"
       /\ last'.cwd0 = ProjectRoot /\ last'.args.project = <<>>
       /\ ~last'.args.guide /\ ~last'.forbidden
       /\ last'.args.restore \/ last'.args.mode = "add"
       /\ ProjectRoot \o AppsDir \in fs.dirs)
        => /\ ProjectRoot \o <<get_default_project_name(ProjectRoot)>> \notin fs'.dirs
           /\ last'.args.restore
                => CallsIn(last'.log) = <<"update_base_settings", "update_main_urls">>
           /\ (~last'.args.restore /\ last'.args.apps # <<>>)
                => \A i \in 1..Len(last'.args.apps[1]) :
                     ProjectRoot \o AppsDir \o <<last'.args.apps[1][i]>> \in fs'.dirs ]_vars

\* --- a claim about the order of backup and validation (Spec)

\* C20: a patch call that changes nothing (the app is present already, or
\* the file does not pass a validation) and so returns False writes no
\* backup; a pair of such calls leaves every file as it was and creates
\* none
C20_BackupOnlyOnCommit ==
  [][ (last'.op = "patch" /\ now' = now)
        => /\ \A kind \in Kinds :
                CallOf(last', kind).ret = "False"
                  => \A i \in 1..Len(CallOf(last', kind).log) :
                       CallOf(last', kind).log[i].target # "backup"
           /\ (\A kind \in Kinds : CallOf(last', kind).ret = "False")
                => fs'.files = fs.files ]_vars

\* --- claims about single runs, continued (SpecRun)

\* the functions that main calls for an app
AppFunctions ==
  {"create_app_structure", "update_base_settings", "update_main_urls",
   "add_app_logger_config", "generate_manual_config_guide",
   "update_installed_apps", "update_urls_config"}

\* C26: in a run of the add mode on an existing project, no function is
\* called for an app of the command line whose directory apps/<name>
\* exists; when all the apps of the command line exist, the run returns
\* False, calls nothing, and leaves every directory and every file as it
\* was
C26_ExistingAppsSkipped ==
  [][ (/\ last.op = "none" /\ last'.op = "run"
       /\ AddOnExisting(last', fs)
       /\ ProjectDir(last') \o AppsDir \in fs.dirs
       /\ last'.args.apps # <<>> /\ last'.args.apps[1] # <<>>)
        => LET apps == last'.args.apps[1]
               existing == { apps[i] : i \in 1..Len(apps) } \ NewApps(last', fs)
           IN /\ \A app_name \in existing, name \in AppFunctions :
                   CallsOf(last'.log, name, app_name) = {}
              /\ NewApps(last', fs) = {}
                   => /\ last'.ret = "False"
                      /\ last'.log = <<>>
                      /\ fs' = fs ]_vars

\* a run of the add mode with --auto-update for blog and main on a project
\* that holds blog and not main: main was created and patched in, blog was
\* passed to no function
C26_Witness ==
  /\ last.op = "run" /\ last.args.mode = "add" /\ last.args.auto_update
  /\ ~last.args.guide /\ ~last.args.restore
  /\ last.args.apps = << <<Blog, MainApp>> >>
  /\ CallsOf(last.log, "create_app_structure", MainApp) # {}
  /\ CallsOf(last.log, "update_base_settings", MainApp) # {}
  /\ \A name \in AppFunctions : CallsOf(last.log, name, Blog) = {}
  /\ ProjectRoot \o AppsDir \o <<Blog>> \in fs.dirs

\* C27: a run of the add mode for a project that does not exist (without
\* --guide, --restore and the name of a built-in app) creates the project
\* with the apps of the command line, calls initialize_django_project and,
\* no creation failing in these runs, returns True
C27_AddFallsBackToInit ==
  [][ (/\ last.op = "none" /\ last'.op = "run"
       /\ last'.args.mode = "add" /\ ~last'.args.guide /\ ~last'.args.restore
       /\ ~last'.forbidden
       /\ ~Exists(fs, ProjectDir(last')))
        => /\ ProjectDir(last') \o AppsDir \in fs'.dirs
           /\ (last'.args.apps # <<>>)
                => \A i \in 1..Len(last'.args.apps[1]) :
                     ProjectDir(last') \o AppsDir \o <<last'.args.apps[1][i]>> \in fs'.dirs
           /\ \E i \in 1..Len(CallsIn(last'.log)) :
                CallsIn(last'.log)[i] = "initialize_django_project"
           /\ last'.ret = "True" ]_vars

\* --- claims about add_app_logger_config (SpecLogging)

\* the line that opens the logger with the given key
LoggerKey(key) == Quoted(key) \o <<":", " ", "{">>

\* C28: when add_app_logger_config returns True for an app on a
\* logging_config.py as the tool generates it, the file then holds the
\* logger of the app and the logger of its API
C28_LoggerAdded ==
  (/\ last.op = "add_app_logger_config" /\ last.ret = "True"
   /\ last.pre \in GeneratedLoggingConfigs)
    => LET content == fs.files[ProjectRoot \o LoggingRel]
       IN /\ InContent(LoggerKey(last.app), content)
          /\ InContent(LoggerKey(last.app \o <<".api">>), content)

\* C29: the backup that a call of add_app_logger_config writes holds the
\* content logging_config.py had before the call
C29_LoggingBackupHoldsOriginal ==
  last.op = "add_app_logger_config"
    => \A i \in 1..Len(last.log) :
         last.log[i].target = "backup" => last.log[i].content = last.pre

\* --- a claim about the names of the configuration classes (SpecNames)

\* the symbols of line from the position first up to the symbol Config
RECURSIVE UpToConfig(_, _)
UpToConfig(line, first) ==
  IF first > Len(line) \/ line[first] = "Config" THEN <<>>
  ELSE <<line[first]>> \o UpToConfig(line, first + 1)

\* the class name in an INSTALLED_APPS entry: what follows .apps.
ClassInEntry(line) ==
  UpToConfig(line, 1 + CHOOSE i \in 1..Len(line) : line[i] = ".apps.")

\* the class name in the class statement of an apps.py
ClassInAppsPy(content) ==
  LET line == CHOOSE l \in {content[k] : k \in 1..Len(content)} :
                StartsWith(l, <<"class", " ">>)
  IN UpToConfig(line, 3)

\* C30: the class name in the INSTALLED_APPS entry that update_base_settings
\* inserts for an app is the class name that create_app_structure wrote
\* into apps/<app>/apps.py, and the class name that create_project_structure
\* uses for the app in its INSTALLED_APPS entry
C30_ClassNamesAgree ==
  (last.op = "update_base_settings" /\ last.ret = "True")
    => LET content == fs.files[LivePath("base")]
           entry == CHOOSE l \in {content[k] : k \in 1..Len(content)} :
                      \A k \in 1..Len(last.pre) : last.pre[k] # l
           apps_py == fs.files[ProjectRoot \o AppsDir \o <<last.app, <<"apps.py">>>>]
       IN /\ ClassInEntry(entry) = ClassInAppsPy(apps_py)
          /\ ClassInEntry(entry) = ClassInEntry(last.initial)

\* --- claims about the splice functions, continued (SpecSplice)

\* C21: in the content append_app_to_base_settings is given, the line the
\* scan takes as the closing line of INSTALLED_APPS is the first line
\* after the opening line that holds a closing bracket, and never the
\* opening line itself
C21_ClosingLineAfterOpening ==
  last.op = "append_app_to_base_settings"
    => LET loc == LocateBase(last.pre, 1, 0)
       IN loc.start # 0
            => /\ loc.start = OpeningLine(last.pre)
               /\ loc.end # loc.start
               /\ loc.end = ClosingLine(last.pre)

\* the names that the import statement in line lists after the keyword
\* import: the runs of symbols between the commas and the spaces
ImportedNames(line) ==
  LET t == SubSeq(line, Len(FromDjangoUrlsImport) + 1, Len(line))
      Sep(c) == c \in {" ", ","}
  IN { SubSeq(t, i, j) : i \in 1..Len(t), j \in 1..Len(t) } \cap
     { SubSeq(t, i, j) : <<i, j>> \in
         { ij \in (1..Len(t)) \X (1..Len(t)) :
             /\ ij[1] <= ij[2]
             /\ \A k \in ij[1]..ij[2] : ~Sep(t[k])
             /\ ij[1] = 1 \/ Sep(t[ij[1] - 1])
             /\ ij[2] = Len(t) \/ Sep(t[ij[2] + 1]) } }

\* C22: the content that a splice function returns with an update, which
\* is the content the patch call writes before it returns True, holds the
\* anchor token, has as many opening as closing square brackets, compiles
\* and, for the URL configuration, has a line that starts with
\* from django.urls import and lists both path and include
C22_PostValidation ==
  (last.op \in {"append_app_to_base_settings", "append_url_to_main_urls"}
     /\ last.has_update)
    => LET c == last.content
           urls == last.op = "append_url_to_main_urls"
       IN /\ InContent(IF urls THEN urlpatterns ELSE INSTALLED_APPS, c)
          /\ Count("[", c) = Count("]", c)
          /\ Compiles(c)
          /\ urls => \E k \in 1..Len(c) :
                        /\ StartsWith(c[k], FromDjangoUrlsImport)
                        /\ {<<"path">>, <<"include">>} \subseteq ImportedNames(c[k])

\* --- claims about sequences of patch and restore calls, continued (Spec)

\* C24: every patch call on an existing live file, also one made in the
\* same second as an earlier call, adds a backup file of its own that holds
\* the content the live file had just before the call, and leaves the
\* backup files of the earlier calls with their content
C24_OneBackupPerCall ==
  [][ (last'.op = "patch" /\ now' = now)
        => \A kind \in Kinds :
             Snapshot(fs, LivePath(kind)) # <<>>
               => /\ \E g \in BackupsIn(fs', kind) \ BackupsIn(fs, kind) :
                       fs'.files[BackupDir(kind) \o <<g>>] = fs.files[LivePath(kind)]
                  /\ \A g \in BackupsIn(fs, kind) :
                       fs'.files[BackupDir(kind) \o <<g>>]
                         = fs.files[BackupDir(kind) \o <<g>>] ]_vars

\* C25: a restore call that follows a patch call on an existing live
\* file, whatever that patch call returned and whatever calls came before
\* it, returns True and sets the live file to the content it had at the
\* start of that patch call; a further restore call leaves it there
C25_RestoreUndoesLastPatch ==
  [][ last'.op = "restore"
        => \A kind \in Kinds :
             /\ (last.op = "patch" /\ CallOf(last, kind).pre # <<>>)
                  => /\ CallOf(last', kind).ret = "True"
                     /\ Snapshot(fs', LivePath(kind)) = CallOf(last, kind).pre
             /\ (last.op = "restore" /\ CallOf(last, kind).ret = "True")
                  => /\ CallOf(last', kind).ret = "True"
                     /\ Snapshot(fs', LivePath(kind)) = Snapshot(fs, LivePath(kind)) ]_vars

\* a restore after a patch call that found the app present and returned
\* False: the settings are as that call found them, with the entry of the
\* earlier patch call, while an older backup holds the content without it
C25_Witness ==
  /\ last.op = "restore" /\ prev.op = "patch"
  /\ prev.base.ret = "False" /\ last.base.ret = "True"
  /\ Live("base") # <<>>
  /\ BaseAlreadyExists(Live("base")[1], prev.app)
  /\ \E g \in BackupsIn(fs, "base") :
       ~InContent(AppConfigName(prev.app), fs.files[BackupDir("base") \o <<g>>])

\* --- claims about patch calls with I/O errors, continued (SpecIO)

\* C23: after a patch call that returned False, in which no step or one
\* step raised an I/O error, the live file exists exactly if it existed
\* before the call and has the content it had before the call
C23_FailedPatchChangesNothing ==
  \A kind \in Kinds :
    LET call == CallOf(last, kind)
    IN (last.op = "patch" /\ call.ret = "False" /\ Cardinality(call.raised) <= 1)
         => Live(kind) = call.pre

\* --- claims about the scaffolding functions (SpecScaffold)

\* C16: the value that create_app_structure or create_project_structure
\* returns is True exactly when none of the create_directory and
\* create_file calls made during the call returned False
C16_SuccessFlag ==
  (last.op \in {"create_app_structure", "create_project_structure"} /\ last.ret # "raise")
    => (last.ret = "True") = (last.failures = {})

====
